---- MODULE Spec2Model ----
(***************************************************************************)
(* VrikshAI backend: token service (api/_utils/auth_middleware.js), plant  *)
(* collection endpoint (api/vana.js) over the database wrapper             *)
(* (api/_utils/database.js) and the identification endpoint                *)
(* (api/darshan.js).                                                       *)
(*                                                                         *)
(* The data service (Supabase/PostgREST) is modelled as a table with       *)
(* single-row operations; jsonwebtoken's sign/verify as an ideal MAC.      *)
(***************************************************************************)
EXTENDS Integers, Sequences, FiniteSets, TLC

VARIABLES now, ticks, issued, authLog, plants, created, reqs, sent, darshan,
          accounts, users, authSent, journey, web

tokenVars == <<now, ticks, issued, authLog>>

vanaVars == <<plants, created, reqs, sent>>

darshanVars == <<darshan>>

authVars == <<accounts, users, authSent>>

journeyVars == <<journey>>

webVars == <<web>>

vars == <<now, ticks, issued, authLog, plants, created, reqs, sent, darshan,
          accounts, users, authSent, journey, web>>

(***************************************************************************)
(* Bounds                                                                  *)
(***************************************************************************)
MaxTicks == 3

MaxTokens == 1

MaxPlants == 2

MaxReq == 2

(***************************************************************************)
(* Token service: auth_middleware.js                                       *)
(***************************************************************************)
TOKEN_EXPIRATION_DAYS == 7

TokenLifetime == TOKEN_EXPIRATION_DAYS * 24 * 60 * 60

JWT_SECRET == "jwt-secret"

OtherSecret == "not-the-jwt-secret"

UserIds == {"uA", "uB"}

Emails == {"a@example.com", "b@example.com"}

\* HMAC-SHA256 over the encoded payload: an ideal MAC, equal only for equal
\* payload and key.  flip marks a signature segment with an altered byte.
HS256(payload, secret) == [over |-> payload, key |-> secret, flip |-> FALSE]

jwt_sign(payload, secret) == [payload |-> payload, sig |-> HS256(payload, secret)]

generateToken_ExpiryInDays(userId, email, t) ==
    jwt_sign([user_id |-> userId, email |-> email,
              exp |-> t + TOKEN_EXPIRATION_DAYS, iat |-> t], JWT_SECRET)

generateToken(userId, email, t) ==
    jwt_sign([user_id |-> userId, email |-> email,
              exp |-> t + TokenLifetime, iat |-> t], JWT_SECRET)

\* Characters of an Authorization header value, grouped in atoms: a space, a
\* word without spaces, or the three-segment serialisation of a token.
NoTok == jwt_sign([user_id |-> "", email |-> "", exp |-> 0, iat |-> 0], "")

SP == [k |-> "sp", w |-> " ", tok |-> NoTok]

Word(w) == [k |-> "word", w |-> w, tok |-> NoTok]

Jwt(t) == [k |-> "jwt", w |-> "", tok |-> t]

\* String.prototype.split(' '): the parts between single spaces.
RECURSIVE SplitOnSpace(_)
SplitOnSpace(s) ==
    IF s = <<>> THEN << <<>> >>
    ELSE LET rest == SplitOnSpace(Tail(s)) IN
         IF Head(s) = SP THEN << <<>> >> \o rest
         ELSE << <<Head(s)>> \o Head(rest) >> \o Tail(rest)

\* parts[0].toLowerCase() === 'bearer'
toLowerCase(w) ==
    CASE w \in {"Bearer", "BEARER", "bearer"} -> "bearer"
      [] w \in {"Basic", "basic"} -> "basic"
      [] w = "A@Example.COM" -> "a@example.com"
      [] w = "/api/auth/LOGIN" -> "/api/auth/login"
      [] w = "User already registered" -> "user already registered"
      [] w = "Unable to validate email address: invalid format" ->
             "unable to validate email address: invalid format"
      [] OTHER -> w

IsBearer(part) ==
    /\ Len(part) = 1
    /\ part[1].k = "word"
    /\ toLowerCase(part[1].w) = "bearer"

\* jwt.verify(token, secret, {algorithms: ['HS256']}): structure, then
\* signature, then expiry (clockTimestamp >= exp is expired).
jwt_verify_NoSignatureCheck(token, secret, t) ==
    IF Len(token) # 1 \/ token[1].k # "jwt"
    THEN [name |-> "JsonWebTokenError", payload |-> NoTok.payload]
    ELSE IF t >= token[1].tok.payload.exp
         THEN [name |-> "TokenExpiredError", payload |-> NoTok.payload]
         ELSE [name |-> "ok", payload |-> token[1].tok.payload]

jwt_verify(token, secret, t) ==
    IF Len(token) # 1 \/ token[1].k # "jwt"
    THEN [name |-> "JsonWebTokenError", payload |-> NoTok.payload]
    ELSE LET tok == token[1].tok IN
         IF tok.sig # HS256(tok.payload, secret)
         THEN [name |-> "JsonWebTokenError", payload |-> NoTok.payload]
         ELSE IF t >= tok.payload.exp
              THEN [name |-> "TokenExpiredError", payload |-> NoTok.payload]
              ELSE [name |-> "ok", payload |-> tok.payload]

MSG_MISSING == "Missing Authorization header"

MSG_FORMAT == "Invalid Authorization header format. Use: Bearer <token>"

MSG_EXPIRED == "Token has expired. Please login again."

MSG_INVALID == "Invalid token. Please login again."

AuthFail(msg) == [ok |-> FALSE, user_id |-> "", email |-> "", error |-> msg]

AuthOk(payload) ==
    [ok |-> TRUE, user_id |-> payload.user_id, email |-> payload.email, error |-> ""]

\* A request's headers: authorization present or not, and its value.
NoAuthHeader == [present |-> FALSE, value |-> <<>>]

AuthHeader(v) == [present |-> TRUE, value |-> v]

Bearer(t) == AuthHeader(<<Word("Bearer"), SP, Jwt(t)>>)

verifyToken_DecodeOnly(headers, t) ==
    IF ~headers.present \/ headers.value = <<>>
    THEN AuthFail(MSG_MISSING)
    ELSE LET parts == SplitOnSpace(headers.value) IN
         IF Len(parts) # 2 \/ ~IsBearer(parts[1])
         THEN AuthFail(MSG_FORMAT)
         ELSE LET r == jwt_verify_NoSignatureCheck(parts[2], JWT_SECRET, t) IN
              CASE r.name = "TokenExpiredError" -> AuthFail(MSG_EXPIRED)
                [] r.name = "JsonWebTokenError" -> AuthFail(MSG_INVALID)
                [] OTHER -> AuthOk(r.payload)

verifyToken_CaseSensitiveScheme(headers, t) ==
    IF ~headers.present \/ headers.value = <<>>
    THEN AuthFail(MSG_MISSING)
    ELSE LET parts == SplitOnSpace(headers.value) IN
         IF Len(parts) # 2 \/ parts[1] # <<Word("Bearer")>>
         THEN AuthFail(MSG_FORMAT)
         ELSE LET r == jwt_verify(parts[2], JWT_SECRET, t) IN
              CASE r.name = "TokenExpiredError" -> AuthFail(MSG_EXPIRED)
                [] r.name = "JsonWebTokenError" -> AuthFail(MSG_INVALID)
                [] OTHER -> AuthOk(r.payload)

verifyToken_SwapsClaims(headers, t) ==
    IF ~headers.present \/ headers.value = <<>>
    THEN AuthFail(MSG_MISSING)
    ELSE LET parts == SplitOnSpace(headers.value) IN
         IF Len(parts) # 2 \/ ~IsBearer(parts[1])
         THEN AuthFail(MSG_FORMAT)
         ELSE LET r == jwt_verify(parts[2], JWT_SECRET, t) IN
              CASE r.name = "TokenExpiredError" -> AuthFail(MSG_EXPIRED)
                [] r.name = "JsonWebTokenError" -> AuthFail(MSG_INVALID)
                [] OTHER -> [ok |-> TRUE, user_id |-> r.payload.email,
                             email |-> r.payload.user_id, error |-> ""]

\* verifyToken with a revocation rule: a token is refused once the client
\* holds a newer one for the same subject.
verifyToken_RevokesReplaced(headers, t) ==
    IF ~headers.present \/ headers.value = <<>>
    THEN AuthFail(MSG_MISSING)
    ELSE LET parts == SplitOnSpace(headers.value) IN
         IF Len(parts) # 2 \/ ~IsBearer(parts[1])
         THEN AuthFail(MSG_FORMAT)
         ELSE LET r == jwt_verify(parts[2], JWT_SECRET, t) IN
              CASE r.name = "TokenExpiredError" -> AuthFail(MSG_EXPIRED)
                [] r.name = "JsonWebTokenError" -> AuthFail(MSG_INVALID)
                [] \E i \in issued : /\ i.token.payload.user_id = r.payload.user_id
                                     /\ i.token.payload.iat > r.payload.iat ->
                       AuthFail(MSG_INVALID)
                [] OTHER -> AuthOk(r.payload)

\* verifyToken(req): the error messages are the failure categories.
verifyToken(headers, t) ==
    IF ~headers.present \/ headers.value = <<>>
    THEN AuthFail(MSG_MISSING)
    ELSE LET parts == SplitOnSpace(headers.value) IN
         IF Len(parts) # 2 \/ ~IsBearer(parts[1])
         THEN AuthFail(MSG_FORMAT)
         ELSE LET r == jwt_verify(parts[2], JWT_SECRET, t) IN
              CASE r.name = "TokenExpiredError" -> AuthFail(MSG_EXPIRED)
                [] r.name = "JsonWebTokenError" -> AuthFail(MSG_INVALID)
                [] OTHER -> AuthOk(r.payload)

(***************************************************************************)
(* Credentials a client can present                                        *)
(***************************************************************************)
IssuedTokens == {i.token : i \in issued}

\* Tokens an attacker derives from an issued one: a byte of the signature
\* flipped, the payload re-signed under another secret, the payload altered
\* (subject swapped, expiry extended) under the old signature.
Tampered(t) ==
    { [t EXCEPT !.sig.flip = TRUE],
      jwt_sign(t.payload, OtherSecret),
      [t EXCEPT !.payload.user_id = CHOOSE u \in UserIds : u # @],
      [t EXCEPT !.payload.exp = @ + TokenLifetime] }

Schemes == {"Bearer", "bearer", "BEARER", "Basic"}

HeaderValues ==
    {<<>>, <<Word("Bearer")>>, <<Word("Bearer"), SP>>,
     <<Word("Bearer"), SP, Word("garbage")>>}
    \cup UNION { { <<Word(s), SP, Jwt(t)>> : s \in Schemes }
                 \cup { <<Jwt(t)>>, <<Word("Bearer"), Jwt(t)>>,
                        <<Word("Bearer"), SP, SP, Jwt(t)>>,
                        <<Word("Bearer"), SP, Jwt(t), SP>>,
                        <<Word("Bearer"), SP, Jwt(t), Jwt(t)>> }
                 : t \in IssuedTokens }
    \cup UNION { { <<Word("Bearer"), SP, Jwt(t)>>, <<Word("Basic"), SP, Jwt(t)>> } :
                   t \in UNION { Tampered(i) : i \in IssuedTokens } }

Headers == {NoAuthHeader} \cup { AuthHeader(v) : v \in HeaderValues }

(***************************************************************************)
(* Data service: the plants table of schema.sql, reached through the       *)
(* VanaDatabase wrapper of database.js                                     *)
(***************************************************************************)
PlantIds == 1..MaxPlants

NoId == 0

NULL == "null"

NullDate == -1

SecondsPerDay == 24 * 60 * 60

\* CURRENT_DATE, as a day number.
Today(t) == t \div SecondsPerDay

Columns ==
    {"id", "user_id", "name", "species", "scientific_name", "sanskrit_name",
     "family", "image_url", "added_date", "last_watered", "next_watering_due",
     "care_schedule", "health_status", "notes", "created_at", "updated_at"}

NoRow ==
    [exists |-> FALSE, user_id |-> "", name |-> NULL, species |-> NULL,
     health_status |-> NULL, notes |-> NULL, last_watered |-> NullDate,
     next_watering_due |-> NullDate, added_date |-> NullDate]

\* A JSON request body: a function from the keys it carries to their values.
EmptyBody == [k \in {} |-> ""]

Has(body, k) == k \in DOMAIN body

TruthyText(body, k) == Has(body, k) /\ body[k] # ""

TruthyDate(body, k) == Has(body, k) /\ body[k] # NullDate

TruthyNum(body, k) == Has(body, k) /\ body[k] # 0

\* An undefined property is left out of the row sent, and the column is NULL.
TextOf(body, k) == IF Has(body, k) THEN body[k] ELSE NULL

Without(body, k) == [f \in (DOMAIN body) \ {k} |-> body[f]]

With(body, k, v) == [f \in (DOMAIN body) \cup {k} |-> IF f = k THEN v ELSE body[f]]

\* Messages of the data service and of the wrapper.
PGRST116 == "JSON object requested, multiple (or no) rows returned"

PGRST204 == "Could not find the column in the schema cache"

PG23505 == "duplicate key value violates unique constraint"

NETWORK_ERROR == "fetch failed"

ACCESS_DENIED == "Plant not found or access denied"

FailedToUpdate(msg) == <<"Failed to update plant: ", msg>>

FailedToRemove(msg) == <<"Failed to remove plant: ", msg>>

Plain(msg) == <<msg>>

DbOutcomes == {"ok", "error"}

Lookup(tbl, plantId) == IF plantId \in PlantIds THEN tbl[plantId] ELSE NoRow

saveToVana_TrustsBody(userId, plantData, t) ==
    [exists |-> TRUE,
     user_id |-> IF Has(plantData, "user_id") THEN plantData["user_id"] ELSE userId,
     name |-> TextOf(plantData, "name"),
     species |-> TextOf(plantData, "species"),
     health_status |-> "healthy",
     notes |-> TextOf(plantData, "notes"),
     last_watered |-> NullDate,
     next_watering_due |-> NullDate,
     added_date |-> Today(t)]

\* saveToVana: the row built from (userId, plantData); user_id is the
\* caller's, next_watering_due is computed when last_watered is given.
saveToVana(userId, plantData, t) ==
    [exists |-> TRUE,
     user_id |-> userId,
     name |-> TextOf(plantData, "name"),
     species |-> TextOf(plantData, "species"),
     health_status |-> IF TruthyText(plantData, "health_status")
                       THEN plantData["health_status"] ELSE "healthy",
     notes |-> TextOf(plantData, "notes"),
     last_watered |-> IF TruthyDate(plantData, "last_watered")
                      THEN plantData["last_watered"] ELSE NullDate,
     next_watering_due |->
         IF TruthyDate(plantData, "last_watered")
         THEN plantData["last_watered"]
              + (IF TruthyNum(plantData, "watering_frequency_days")
                 THEN plantData["watering_frequency_days"] ELSE 7)
         ELSE NullDate,
     added_date |-> Today(t)]

\* getMeraVana: the caller's rows, newest added_date first; rows added on the
\* same date come in an order the data service chooses.
OwnedIds(tbl, userId) ==
    {p \in PlantIds : tbl[p].exists /\ tbl[p].user_id = userId}

getMeraVana_Unordered(tbl, userId) ==
    LET ids == OwnedIds(tbl, userId)
        n == Cardinality(ids)
    IN { [i \in 1..n |-> [id |-> f[i], row |-> tbl[f[i]]]] :
           f \in { g \in [1..n -> ids] : \A i, j \in 1..n : i # j => g[i] # g[j] } }

getMeraVana(tbl, userId) ==
    LET ids == OwnedIds(tbl, userId)
        n == Cardinality(ids)
    IN { [i \in 1..n |-> [id |-> f[i], row |-> tbl[f[i]]]] :
           f \in { g \in [1..n -> ids] :
                     /\ \A i, j \in 1..n : i # j => g[i] # g[j]
                     /\ \A i, j \in 1..n :
                           i < j => tbl[g[i]].added_date >= tbl[g[j]].added_date } }

\* plants.find(p => p.id === plantId)
FindPlant(rows, plantId) ==
    LET hits == {i \in 1..Len(rows) : rows[i].id = plantId}
    IN IF hits = {} THEN <<>> ELSE <<rows[CHOOSE i \in hits : \A j \in hits : i <= j]>>

\* updateVanaPlant, first query: select user_id where id = plantId, single().
OwnershipCheck(tbl, plantId, userId) ==
    LET row == Lookup(tbl, plantId) IN
    IF ~row.exists THEN PGRST116
    ELSE IF row.user_id # userId THEN ACCESS_DENIED
    ELSE ""

\* updateVanaPlant, between the queries: next_watering_due is added to the
\* updates when both last_watered and watering_frequency_days are given.
WithNextWatering(updates) ==
    IF TruthyDate(updates, "last_watered") /\ TruthyNum(updates, "watering_frequency_days")
    THEN With(updates, "next_watering_due",
              updates["last_watered"] + updates["watering_frequency_days"])
    ELSE updates

\* update(updates).eq('id', plantId): an unknown column is an error, no
\* matching row is not; every supplied column is written.
Col(row, updates, k) == IF Has(updates, k) THEN updates[k] ELSE row[k]

UpdatedRow_Replaces(row, updates) ==
    [exists |-> TRUE,
     user_id |-> Col(row, updates, "user_id"),
     name |-> Col(row, updates, "name"),
     species |-> Col(row, updates, "species"),
     health_status |-> IF Has(updates, "health_status") THEN updates["health_status"]
                       ELSE "healthy",
     notes |-> Col(row, updates, "notes"),
     last_watered |-> Col(row, updates, "last_watered"),
     next_watering_due |-> IF Has(updates, "next_watering_due")
                           THEN updates["next_watering_due"] ELSE NullDate,
     added_date |-> Col(row, updates, "added_date")]

UpdatedRow(row, updates) ==
    [exists |-> TRUE,
     user_id |-> Col(row, updates, "user_id"),
     name |-> Col(row, updates, "name"),
     species |-> Col(row, updates, "species"),
     health_status |-> Col(row, updates, "health_status"),
     notes |-> Col(row, updates, "notes"),
     last_watered |-> Col(row, updates, "last_watered"),
     next_watering_due |-> Col(row, updates, "next_watering_due"),
     added_date |-> Col(row, updates, "added_date")]

UpdateWhereId(tbl, plantId, updates) ==
    IF ~(DOMAIN updates \subseteq Columns)
    THEN [error |-> PGRST204, table |-> tbl]
    ELSE IF ~Lookup(tbl, plantId).exists
    THEN [error |-> "", table |-> tbl]
    ELSE IF Has(updates, "id") /\ updates["id"] # plantId
    THEN IF updates["id"] \notin PlantIds \/ tbl[updates["id"]].exists
         THEN [error |-> PG23505, table |-> tbl]
         ELSE [error |-> "",
               table |-> [tbl EXCEPT ![plantId] = NoRow,
                                     ![updates["id"]] = UpdatedRow(tbl[plantId], updates)]]
    ELSE [error |-> "",
          table |-> [tbl EXCEPT ![plantId] = UpdatedRow(tbl[plantId], updates)]]

\* A delete whose filter matches no row.
DeleteWhereId_MatchesNothing(tbl, plantId) == tbl

\* delete().eq('id', plantId): no matching row is not an error.
DeleteWhereId(tbl, plantId) ==
    IF plantId \in PlantIds THEN [tbl EXCEPT ![plantId] = NoRow] ELSE tbl

(***************************************************************************)
(* Plant collection endpoint: vana.js                                      *)
(***************************************************************************)
Slots == 1..MaxReq

\* sendResponse(res, status, data)
NoResp ==
    [status |-> 0, success |-> FALSE, error |-> <<>>, message |-> "",
     plant_id |-> NoId, rows |-> <<>>, count |-> -1]

Failure(status, err) == [NoResp EXCEPT !.status = status, !.error = err]

Success(msg) == [NoResp EXCEPT !.status = 200, !.success = TRUE, !.message = msg]

\* A request: method, headers, URL (/api/vana, /api/vana/<id> or
\* /api/vana?plant_id=<id>) and JSON body.
Url(pathId, queryId) == [path_id |-> pathId, query_id |-> queryId]

Request(method, headers, url, body) ==
    [method |-> method, headers |-> headers, url |-> url, body |-> body]

extractPlantId(url) == url.path_id

\* What a handler has done when it answers or suspends: the outcome of
\* verifyToken (auth), the id it addressed, the state of that row when the
\* handler read the table (target: none, absent, own, foreign), the number of
\* data service calls made so far, the data it hands to the wrapper to write
\* (plantData or updates) and the response (NoResp while it is suspended
\* between its two queries).
TargetOf(tbl, plantId, userId) ==
    IF plantId = NoId THEN "none"
    ELSE IF ~Lookup(tbl, plantId).exists THEN "absent"
    ELSE IF Lookup(tbl, plantId).user_id = userId THEN "own"
    ELSE "foreign"

Outcome(op, plantId, auth, target, dbCalls, updates, resp) ==
    [op |-> op, plantId |-> plantId, auth |-> auth, target |-> target,
     dbCalls |-> dbCalls, updates |-> updates, resp |-> resp]

\* authenticate(req, res): 401 with verifyToken's message.
Unauthorized(op, auth) ==
    Outcome(op, NoId, auth, "none", 0, EmptyBody, Failure(401, Plain(auth.error)))

\* handleGet without its catch: an error of the data service ends the
\* handler before any response.
handleGet_Uncaught(tbl, req, t, db, rows) ==
    LET auth == verifyToken(req.headers, t)
        plantId == extractPlantId(req.url)
        target == TargetOf(tbl, plantId, auth.user_id)
    IN IF ~auth.ok THEN Unauthorized("get", auth)
       ELSE IF db = "error"
       THEN Outcome("get", plantId, auth, target, 1, EmptyBody, NoResp)
       ELSE IF plantId # NoId /\ FindPlant(rows, plantId) = <<>>
       THEN Outcome("get", plantId, auth, target, 1, EmptyBody,
                    Failure(404, Plain("Plant not found")))
       ELSE Outcome("get", plantId, auth, target, 1, EmptyBody,
                    [NoResp EXCEPT !.status = 200, !.success = TRUE,
                                   !.rows = IF plantId # NoId THEN FindPlant(rows, plantId)
                                            ELSE rows,
                                   !.count = IF plantId # NoId THEN -1 ELSE Len(rows)])

\* handleGet, given the rows getMeraVana returned.
handleGet(tbl, req, t, db, rows) ==
    LET auth == verifyToken(req.headers, t)
        plantId == extractPlantId(req.url)
        target == TargetOf(tbl, plantId, auth.user_id)
        found == FindPlant(rows, plantId)
    IN IF ~auth.ok THEN Unauthorized("get", auth)
       ELSE IF db = "error"
       THEN Outcome("get", plantId, auth, target, 1, EmptyBody,
                    Failure(500, Plain("Failed to fetch plants. Please try again.")))
       ELSE IF plantId # NoId
       THEN IF found = <<>>
            THEN Outcome("get", plantId, auth, target, 1, EmptyBody,
                         Failure(404, Plain("Plant not found")))
            ELSE Outcome("get", plantId, auth, target, 1, EmptyBody,
                         [NoResp EXCEPT !.status = 200, !.success = TRUE, !.rows = found])
       ELSE Outcome("get", plantId, auth, target, 1, EmptyBody,
                    [NoResp EXCEPT !.status = 200, !.success = TRUE,
                                   !.rows = rows, !.count = Len(rows)])

handlePost_NoEarlyReturn(req, t, db) ==
    LET auth == verifyToken(req.headers, t) IN
    IF ~TruthyText(req.body, "name")
    THEN Outcome("post", NoId, auth, "none", 0, EmptyBody,
                 Failure(400, Plain("Plant name is required")))
    ELSE IF ~TruthyText(req.body, "species")
    THEN Outcome("post", NoId, auth, "none", 0, EmptyBody,
                 Failure(400, Plain("Plant species is required")))
    ELSE IF db = "error"
    THEN Outcome("post", NoId, auth, "none", 1, EmptyBody,
                 Failure(500, Plain("Failed to add plant. Please try again.")))
    ELSE Outcome("post", NoId, auth, "none", 1, req.body, NoResp)

\* handlePost without the check of species.
handlePost_SpeciesOptional(req, t, db) ==
    LET auth == verifyToken(req.headers, t) IN
    IF ~auth.ok THEN Unauthorized("post", auth)
    ELSE IF ~TruthyText(req.body, "name")
    THEN Outcome("post", NoId, auth, "none", 0, EmptyBody,
                 Failure(400, Plain("Plant name is required")))
    ELSE IF db = "error"
    THEN Outcome("post", NoId, auth, "none", 1, EmptyBody,
                 Failure(500, Plain("Failed to add plant. Please try again.")))
    ELSE Outcome("post", NoId, auth, "none", 1, req.body, NoResp)

\* handlePost up to the insert: the response when it does not insert.
handlePost(req, t, db) ==
    LET auth == verifyToken(req.headers, t) IN
    IF ~auth.ok THEN Unauthorized("post", auth)
    ELSE IF ~TruthyText(req.body, "name")
    THEN Outcome("post", NoId, auth, "none", 0, EmptyBody,
                 Failure(400, Plain("Plant name is required")))
    ELSE IF ~TruthyText(req.body, "species")
    THEN Outcome("post", NoId, auth, "none", 0, EmptyBody,
                 Failure(400, Plain("Plant species is required")))
    ELSE IF db = "error"
    THEN Outcome("post", NoId, auth, "none", 1, EmptyBody,
                 Failure(500, Plain("Failed to add plant. Please try again.")))
    ELSE Outcome("post", NoId, auth, "none", 1, req.body, NoResp)

\* handlePut up to and including the first query of updateVanaPlant.
handlePut(tbl, req, t, db) ==
    LET auth == verifyToken(req.headers, t)
        plantId == IF extractPlantId(req.url) # NoId THEN extractPlantId(req.url)
                   ELSE IF TruthyNum(req.body, "plant_id") THEN req.body["plant_id"]
                   ELSE NoId
        updates == Without(req.body, "plant_id")
        target == TargetOf(tbl, plantId, auth.user_id)
        check == IF db = "error" THEN NETWORK_ERROR
                 ELSE OwnershipCheck(tbl, plantId, auth.user_id)
    IN IF ~auth.ok THEN Unauthorized("put", auth)
       ELSE IF plantId = NoId
       THEN Outcome("put", plantId, auth, "none", 0, EmptyBody,
                    Failure(400, Plain("plant_id is required")))
       ELSE IF DOMAIN updates = {}
       THEN Outcome("put", plantId, auth, "none", 0, EmptyBody,
                    Failure(400, Plain("No fields to update")))
       ELSE IF check # ""
       THEN Outcome("put", plantId, auth, target, 1, EmptyBody,
                    Failure(500, FailedToUpdate(check)))
       ELSE Outcome("put", plantId, auth, target, 1, WithNextWatering(updates), NoResp)

\* handleDelete up to and including the first query of removeFromVana.
handleDelete(tbl, req, t, db) ==
    LET auth == verifyToken(req.headers, t)
        plantId == IF extractPlantId(req.url) # NoId THEN extractPlantId(req.url)
                   ELSE req.url.query_id
        target == TargetOf(tbl, plantId, auth.user_id)
        check == IF db = "error" THEN NETWORK_ERROR
                 ELSE OwnershipCheck(tbl, plantId, auth.user_id)
    IN IF ~auth.ok THEN Unauthorized("delete", auth)
       ELSE IF plantId = NoId
       THEN Outcome("delete", plantId, auth, "none", 0, EmptyBody,
                    Failure(400, Plain("plant_id is required in URL path or query parameter")))
       ELSE IF check # ""
       THEN Outcome("delete", plantId, auth, target, 1, EmptyBody,
                    Failure(500, FailedToRemove(check)))
       ELSE Outcome("delete", plantId, auth, target, 1, EmptyBody, NoResp)

(***************************************************************************)
(* The endpoint as a state machine.  reqs holds the handlers suspended      *)
(* between the two queries of updateVanaPlant / removeFromVana; sent holds  *)
(* the response on its way to the client, with what its handler did: wrote  *)
(* tells whether the step that answered changed the table, owner who owned  *)
(* the addressed row when that step began.                                  *)
(***************************************************************************)
Idle == Outcome("idle", NoId, AuthFail(""), "none", 0, EmptyBody, NoResp)

NothingSent == [out |-> Idle, wrote |-> FALSE, owner |-> ""]

Sent(out, wrote) ==
    [out |-> out, wrote |-> wrote, owner |-> Lookup(plants, out.plantId).user_id]

Ready == sent = NothingSent

\* A new handler takes the first free slot.
FreeSlot(s) ==
    /\ reqs[s] = Idle
    /\ \A r \in Slots : r < s => reqs[r] # Idle

HandleGet(req, db) ==
    /\ Ready
    /\ req.method = "GET"
    /\ \E rows \in getMeraVana(plants, verifyToken(req.headers, now).user_id) :
          sent' = Sent(handleGet(plants, req, now, db, rows), FALSE)
    /\ UNCHANGED <<plants, created, reqs>>

HandlePost(req, db) ==
    /\ Ready
    /\ req.method = "POST"
    /\ LET out == handlePost(req, now, db) IN
       IF out.resp # NoResp
       THEN /\ sent' = Sent(out, FALSE)
            /\ UNCHANGED <<plants, created>>
       ELSE /\ created < MaxPlants
            /\ created' = created + 1
            /\ plants' = [plants EXCEPT ![created + 1] =
                              saveToVana(out.auth.user_id, req.body, now)]
            /\ sent' = Sent([out EXCEPT !.plantId = created + 1,
                                        !.resp = [Success("Plant added to Mera Vana successfully")
                                                     EXCEPT !.plant_id = created + 1]],
                            TRUE)
    /\ UNCHANGED reqs

HandlePut(req, db) ==
    /\ Ready
    /\ req.method \in {"PUT", "PATCH"}
    /\ LET out == handlePut(plants, req, now, db) IN
       IF out.resp # NoResp
       THEN sent' = Sent(out, FALSE) /\ UNCHANGED reqs
       ELSE \E s \in Slots :
               /\ FreeSlot(s)
               /\ reqs' = [reqs EXCEPT ![s] = out]
               /\ UNCHANGED sent
    /\ UNCHANGED <<plants, created>>

\* updateVanaPlant's second query and handlePut's response.
UpdateWrite(s, db) ==
    /\ Ready
    /\ reqs[s].op = "put"
    /\ LET r == reqs[s]
           res == IF db = "error" THEN [error |-> NETWORK_ERROR, table |-> plants]
                  ELSE UpdateWhereId(plants, r.plantId, r.updates)
       IN /\ plants' = res.table
          /\ sent' = Sent([r EXCEPT !.dbCalls = 2,
                                    !.resp = IF res.error # ""
                                             THEN Failure(500, FailedToUpdate(res.error))
                                             ELSE Success("Plant updated successfully")],
                          res.table # plants)
    /\ reqs' = [reqs EXCEPT ![s] = Idle]
    /\ UNCHANGED created

HandleDelete(req, db) ==
    /\ Ready
    /\ req.method = "DELETE"
    /\ LET out == handleDelete(plants, req, now, db) IN
       IF out.resp # NoResp
       THEN sent' = Sent(out, FALSE) /\ UNCHANGED reqs
       ELSE \E s \in Slots :
               /\ FreeSlot(s)
               /\ reqs' = [reqs EXCEPT ![s] = out]
               /\ UNCHANGED sent
    /\ UNCHANGED <<plants, created>>

\* removeFromVana's second query and handleDelete's response.
DeleteWrite(s, db) ==
    /\ Ready
    /\ reqs[s].op = "delete"
    /\ LET r == reqs[s]
           tbl == IF db = "error" THEN plants ELSE DeleteWhereId(plants, r.plantId)
       IN /\ plants' = tbl
          /\ sent' = Sent([r EXCEPT !.dbCalls = 2,
                                    !.resp = IF db = "error"
                                             THEN Failure(500, FailedToRemove(NETWORK_ERROR))
                                             ELSE Success("Plant removed from Mera Vana successfully")],
                          tbl # plants)
    /\ reqs' = [reqs EXCEPT ![s] = Idle]
    /\ UNCHANGED created

\* handler: the CORS preflight and the methods without a handler.
HandleOther(req) ==
    /\ Ready
    /\ req.method \notin {"GET", "POST", "PUT", "PATCH", "DELETE"}
    /\ sent' = Sent(Outcome("none", NoId, AuthFail(""), "none", 0, EmptyBody,
                            IF req.method = "OPTIONS" THEN [NoResp EXCEPT !.status = 200]
                            ELSE Failure(405, Plain("Method not allowed"))),
                    FALSE)
    /\ UNCHANGED <<plants, created, reqs>>

\* The response reaches the client.
ClientReceives ==
    /\ ~Ready
    /\ sent' = NothingSent
    /\ UNCHANGED <<plants, created, reqs>>

(***************************************************************************)
(* Identification endpoint: darshan.js                                     *)
(***************************************************************************)
\* A JSON value as far as the validator looks at it: its kind ("undefined"
\* for a key that is missing), a number in tenths, an array's length.
JVal(kind, num, len) == [kind |-> kind, num |-> num, len |-> len]

JUndefined == JVal("undefined", 0, 0)

JNumber(tenths) == JVal("number", tenths, 0)

JArray(len) == JVal("array", 0, len)

JKind(kind) == JVal(kind, 0, 0)

requiredFields ==
    {"common_name", "scientific_name", "family", "plant_type", "confidence",
     "health_status", "health_notes"}

requiredObjects ==
    {"description", "care_guide", "vastu", "traditional_significance", "warnings"}

\* The parsed reply: its own kind (and, for a string, whether its text
\* contains 'JSON'), the top-level keys it has among the required ones
\* (whatever their values), and the values the validator reads.
NoData ==
    [kind |-> "undefined", saysJSON |-> FALSE, has |-> {}, confidence |-> JUndefined,
     objects |-> [f \in requiredObjects |-> JUndefined],
     interesting_facts |-> JUndefined, benefits |-> JUndefined,
     suitable_rooms |-> JUndefined]

\* typeof x
typeof(v) ==
    CASE v.kind \in {"object", "array", "null"} -> "object"
      [] OTHER -> v.kind

\* Array.isArray(x)
isArray(v) == v.kind = "array"

Thrown(name, msg, mentionsJSON) ==
    [ok |-> FALSE, name |-> name, message |-> msg, mentionsJSON |-> mentionsJSON,
     data |-> NoData]

Returned(data) ==
    [ok |-> TRUE, name |-> "", message |-> "", mentionsJSON |-> FALSE, data |-> data]

\* data.vastu.<key>: a property of null cannot be read; an array has no such
\* property.
VastuProperty(data, v) == IF data.objects["vastu"].kind = "object" THEN v ELSE JUndefined

validateDarshanResult_NoUpperBound(data) ==
    IF data.kind \notin {"object", "array"}
    THEN Thrown("TypeError", "Cannot use 'in' operator", data.saysJSON)
    ELSE IF ~(requiredFields \subseteq data.has)
    THEN Thrown("Error", "Missing required field", FALSE)
    ELSE IF typeof(data.confidence) # "number" \/ data.confidence.num < 0
    THEN Thrown("Error", "Confidence must be a number between 0 and 1", FALSE)
    ELSE IF \E f \in requiredObjects :
               data.objects[f].kind = "undefined" \/ typeof(data.objects[f]) # "object"
    THEN Thrown("Error", "Missing or invalid object", FALSE)
    ELSE IF ~isArray(data.interesting_facts) \/ data.interesting_facts.len = 0
    THEN Thrown("Error", "interesting_facts must be a non-empty array", FALSE)
    ELSE IF data.objects["vastu"].kind = "null"
    THEN Thrown("TypeError", "Cannot read properties of null", FALSE)
    ELSE IF ~isArray(VastuProperty(data, data.benefits))
            \/ VastuProperty(data, data.benefits).len = 0
    THEN Thrown("Error", "vastu.benefits must be a non-empty array", FALSE)
    ELSE IF ~isArray(VastuProperty(data, data.suitable_rooms))
            \/ VastuProperty(data, data.suitable_rooms).len = 0
    THEN Thrown("Error", "vastu.suitable_rooms must be a non-empty array", FALSE)
    ELSE Returned(data)

validateDarshanResult(data) ==
    IF data.kind \notin {"object", "array"}
    THEN Thrown("TypeError", "Cannot use 'in' operator", data.saysJSON)
    ELSE IF ~(requiredFields \subseteq data.has)
    THEN Thrown("Error", "Missing required field", FALSE)
    ELSE IF typeof(data.confidence) # "number"
            \/ data.confidence.num < 0 \/ data.confidence.num > 10
    THEN Thrown("Error", "Confidence must be a number between 0 and 1", FALSE)
    ELSE IF \E f \in requiredObjects :
               data.objects[f].kind = "undefined" \/ typeof(data.objects[f]) # "object"
    THEN Thrown("Error", "Missing or invalid object", FALSE)
    ELSE IF ~isArray(data.interesting_facts) \/ data.interesting_facts.len = 0
    THEN Thrown("Error", "interesting_facts must be a non-empty array", FALSE)
    ELSE IF data.objects["vastu"].kind = "null"
    THEN Thrown("TypeError", "Cannot read properties of null", FALSE)
    ELSE IF ~isArray(VastuProperty(data, data.benefits))
            \/ VastuProperty(data, data.benefits).len = 0
    THEN Thrown("Error", "vastu.benefits must be a non-empty array", FALSE)
    ELSE IF ~isArray(VastuProperty(data, data.suitable_rooms))
            \/ VastuProperty(data, data.suitable_rooms).len = 0
    THEN Thrown("Error", "vastu.suitable_rooms must be a non-empty array", FALSE)
    ELSE Returned(data)

\* The model's reply as text: a sequence of pieces, each a json-tagged code
\* fence, a bare code fence, prose, or the JSON text of a value.
Piece(kind, data) == [kind |-> kind, data |-> data]

FenceJson == Piece("fence-json", NoData)

Fence == Piece("fence", NoData)

Prose == Piece("prose", NoData)

JsonText(data) == Piece("json", data)

\* The text before the first piece that is one of marks, and the text after it.
RECURSIVE Before(_, _)
Before(s, marks) ==
    IF s = <<>> \/ Head(s) \in marks THEN <<>>
    ELSE <<Head(s)>> \o Before(Tail(s), marks)

RECURSIVE After(_, _)
After(s, marks) ==
    IF s = <<>> THEN <<>>
    ELSE IF Head(s) \in marks THEN Tail(s)
    ELSE After(Tail(s), marks)

\* JSON.parse: the text must be the JSON text of one value.
JSON_parse(s) ==
    IF Len(s) = 1 /\ s[1].kind = "json"
    THEN Returned(s[1].data)
    ELSE Thrown("SyntaxError", "Unexpected token in JSON", TRUE)

\* parseGPTResponse: the bare fence is a prefix of the json-tagged one, so
\* the closing split stops at either.
parseGPTResponse(content) ==
    IF \E i \in 1..Len(content) : content[i] = FenceJson
    THEN JSON_parse(Before(After(content, {FenceJson}), {Fence, FenceJson}))
    ELSE IF \E i \in 1..Len(content) : content[i] = Fence
    THEN JSON_parse(Before(After(content, {Fence}), {Fence}))
    ELSE JSON_parse(content)

\* The gateway's outcome: a reply with content, or a thrown error with its
\* HTTP status and whether its message contains 'JSON'.
GatewayReply(content) ==
    [kind |-> "reply", content |-> content, status |-> 200, mentionsJSON |-> FALSE]

GatewayError(status, mentionsJSON) ==
    [kind |-> "error", content |-> <<>>, status |-> status, mentionsJSON |-> mentionsJSON]

\* A reply whose message has no content (content is null).
GatewayNoContent ==
    [kind |-> "null", content |-> <<>>, status |-> 200, mentionsJSON |-> FALSE]

NotCalled == [kind |-> "none", content |-> <<>>, status |-> 0, mentionsJSON |-> FALSE]

DarshanResponse(status, success, err, data) ==
    [status |-> status, success |-> success, error |-> err, darshan |-> data]

MSG_PARSE == "Failed to parse AI response. Please try again."

MSG_GENERIC == "Plant identification failed. Please try again with a clearer image."

\* The catch block of handler.
DarshanCatch(name, status, mentionsJSON) ==
    IF status = 429
    THEN DarshanResponse(429, FALSE, "Rate limit exceeded. Please try again in a moment.", NoData)
    ELSE IF name = "SyntaxError" \/ mentionsJSON
    THEN DarshanResponse(500, FALSE, MSG_PARSE, NoData)
    ELSE DarshanResponse(500, FALSE, MSG_GENERIC, NoData)

\* handler(req, res): req has a method and a body with image_url and
\* image_base64 (each "" when missing); gw is what the gateway does if called.
DarshanRequest(method, imageUrl, imageBase64) ==
    [method |-> method, image_url |-> imageUrl, image_base64 |-> imageBase64]

Exchange(req, gw, imageUrl, resp) ==
    [req |-> req, gw |-> gw, imageUrl |-> imageUrl, resp |-> resp]

DataUrl(b64) ==
    IF b64 \in {"data:image/png;base64,AAAA"} THEN b64
    ELSE IF b64 = "AAAA" THEN "data:image/jpeg;base64,AAAA"
    ELSE b64

darshanHandler(req, gw) ==
    IF req.method = "OPTIONS"
    THEN Exchange(req, NotCalled, "", DarshanResponse(200, TRUE, "", NoData))
    ELSE IF req.method # "POST"
    THEN Exchange(req, NotCalled, "", DarshanResponse(405, FALSE, "Method not allowed", NoData))
    ELSE IF req.image_url = "" /\ req.image_base64 = ""
    THEN Exchange(req, NotCalled, "",
                  DarshanResponse(400, FALSE, "Either image_url or image_base64 is required", NoData))
    ELSE LET imageUrl == IF req.image_url # "" THEN req.image_url
                         ELSE DataUrl(req.image_base64)
         IN IF gw.kind = "error"
            THEN Exchange(req, gw, imageUrl, DarshanCatch("Error", gw.status, gw.mentionsJSON))
            ELSE IF gw.kind = "null"
            THEN Exchange(req, gw, imageUrl, DarshanCatch("TypeError", 0, FALSE))
            ELSE LET parsed == parseGPTResponse(gw.content) IN
                 IF ~parsed.ok
                 THEN Exchange(req, gw, imageUrl,
                               DarshanCatch(parsed.name, 0, parsed.mentionsJSON))
                 ELSE LET validated == validateDarshanResult(parsed.data) IN
                      IF ~validated.ok
                      THEN Exchange(req, gw, imageUrl,
                                    DarshanCatch(validated.name, 0, validated.mentionsJSON))
                      ELSE Exchange(req, gw, imageUrl,
                                    DarshanResponse(200, TRUE, "", validated.data))

NoExchange ==
    Exchange(DarshanRequest("", "", ""), NotCalled, "", DarshanResponse(0, FALSE, "", NoData))

(***************************************************************************)
(* Authentication endpoint: auth.js, with the identity provider (Supabase  *)
(* Auth) and the users table behind it                                     *)
(***************************************************************************)
\* String.prototype.trim()
trim(s) ==
    CASE s = "   " -> ""
      [] s = " A@Example.COM " -> "A@Example.COM"
      [] s = " Asha " -> "Asha"
      [] OTHER -> s

\* String.prototype.includes('@')
includesAt(s) ==
    s \in {"a@example.com", "b@example.com", "A@Example.COM", " A@Example.COM ", "@"}

\* errorMsg.includes('already') || errorMsg.includes('exists')
includesAlreadyOrExists(msg) == msg \in {"user already registered"}

\* What the identity provider and the data service answer with.
USER_ALREADY_REGISTERED == "User already registered"

INVALID_EMAIL_FORMAT == "Unable to validate email address: invalid format"

INVALID_LOGIN_CREDENTIALS == "Invalid login credentials"

NoAccount == [exists |-> FALSE, password |-> <<>>, id |-> ""]

NoProfile == [exists |-> FALSE, email |-> "", name |-> ""]

IdOf(email) == IF email = "a@example.com" THEN "uA" ELSE "uB"

IdpOutcomes == {"ok", "error", "nouser"}

\* auth.signUp({email, password, options}): { data: { user }, error }.
signUp(acc, email, password, idp) ==
    IF idp = "error" THEN [error |-> NETWORK_ERROR, user |-> ""]
    ELSE IF idp = "nouser" THEN [error |-> "", user |-> ""]
    ELSE IF email \notin Emails THEN [error |-> INVALID_EMAIL_FORMAT, user |-> ""]
    ELSE IF acc[email].exists THEN [error |-> USER_ALREADY_REGISTERED, user |-> ""]
    ELSE [error |-> "", user |-> IdOf(email)]

\* auth.signInWithPassword({email, password}): { data: { user }, error }.
signInWithPassword(acc, email, password, idp) ==
    IF idp = "error" THEN [error |-> NETWORK_ERROR, user |-> ""]
    ELSE IF idp = "nouser" THEN [error |-> "", user |-> ""]
    ELSE IF email \notin Emails \/ ~acc[email].exists \/ acc[email].password # password
    THEN [error |-> INVALID_LOGIN_CREDENTIALS, user |-> ""]
    ELSE [error |-> "", user |-> acc[email].id]

\* getUser(userId): the profile row, or null (NoProfile) when there is none
\* and when the query fails.
getUser(tbl, userId, db) ==
    IF db = "error" THEN NoProfile
    ELSE IF userId \notin UserIds \/ ~tbl[userId].exists THEN NoProfile
    ELSE tbl[userId]

\* sendResponse(res, status, data) of auth.js.
NoUser == [id |-> "", email |-> "", name |-> ""]

AuthFailure(status, err) ==
    [status |-> status, success |-> FALSE, error |-> err, token |-> NoTok, user |-> NoUser]

AuthSuccess(token, user) ==
    [status |-> 200, success |-> TRUE, error |-> "", token |-> token, user |-> user]

\* req.body of signup and login, req.headers of refresh and verify.
SignupBody(email, password, name) == [email |-> email, password |-> password, name |-> name]

AuthRequest(body, headers) == [body |-> body, headers |-> headers]

NoBody == SignupBody("", <<>>, "")

\* What a handler of auth.js did: the request, the normalised email it
\* worked with, the calls it made to the identity provider and to the data
\* service, what the provider and verifyToken answered, and the response.
AuthOutcome(op, req, email, idpCalls, dbCalls, idpError, auth, resp) ==
    [op |-> op, req |-> req, email |-> email, idpCalls |-> idpCalls,
     dbCalls |-> dbCalls, idpError |-> idpError, auth |-> auth, resp |-> resp]

handleSignup_SkipsValidation(body, acc, t, idp) ==
    LET emailTrimmed == toLowerCase(trim(body.email))
        nameTrimmed == trim(body.name)
        signedUp == signUp(acc, emailTrimmed, body.password, idp)
    IN IF signedUp.error # ""
       THEN IF includesAlreadyOrExists(toLowerCase(signedUp.error))
            THEN AuthOutcome("signup", AuthRequest(body, NoAuthHeader), emailTrimmed, 1, 0, signedUp.error, AuthFail(""),
                             AuthFailure(409, "Email already registered. Please login instead."))
            ELSE AuthOutcome("signup", AuthRequest(body, NoAuthHeader), emailTrimmed, 1, 0, signedUp.error, AuthFail(""),
                             AuthFailure(500, "Signup failed. Please try again."))
       ELSE IF signedUp.user = ""
       THEN AuthOutcome("signup", AuthRequest(body, NoAuthHeader), emailTrimmed, 1, 0, "Failed to create user account",
                        AuthFail(""), AuthFailure(500, "Signup failed. Please try again."))
       ELSE AuthOutcome("signup", AuthRequest(body, NoAuthHeader), emailTrimmed, 1, 0, "", AuthFail(""),
                        AuthSuccess(generateToken(signedUp.user, emailTrimmed, t),
                                    [id |-> signedUp.user, email |-> emailTrimmed,
                                     name |-> nameTrimmed]))

handleSignup_LeaksProviderError(body, acc, t, idp) ==
    LET out == handleSignup_SkipsValidation(body, acc, t, idp) IN
    IF out.resp.status = 500 THEN [out EXCEPT !.resp.error = out.idpError] ELSE out

handleSignup(body, acc, t, idp) ==
    LET emailTrimmed == toLowerCase(trim(body.email))
        nameTrimmed == trim(body.name)
        signedUp == signUp(acc, emailTrimmed, body.password, idp)
    IN IF emailTrimmed = "" \/ ~includesAt(emailTrimmed)
       THEN AuthOutcome("signup", AuthRequest(body, NoAuthHeader), emailTrimmed, 0, 0, "", AuthFail(""),
                        AuthFailure(400, "Valid email is required"))
       ELSE IF Len(body.password) < 6
       THEN AuthOutcome("signup", AuthRequest(body, NoAuthHeader), emailTrimmed, 0, 0, "", AuthFail(""),
                        AuthFailure(400, "Password must be at least 6 characters"))
       ELSE IF nameTrimmed = ""
       THEN AuthOutcome("signup", AuthRequest(body, NoAuthHeader), emailTrimmed, 0, 0, "", AuthFail(""),
                        AuthFailure(400, "Name is required"))
       ELSE IF signedUp.error # ""
       THEN IF includesAlreadyOrExists(toLowerCase(signedUp.error))
            THEN AuthOutcome("signup", AuthRequest(body, NoAuthHeader), emailTrimmed, 1, 0, signedUp.error, AuthFail(""),
                             AuthFailure(409, "Email already registered. Please login instead."))
            ELSE AuthOutcome("signup", AuthRequest(body, NoAuthHeader), emailTrimmed, 1, 0, signedUp.error, AuthFail(""),
                             AuthFailure(500, "Signup failed. Please try again."))
       ELSE IF signedUp.user = ""
       THEN AuthOutcome("signup", AuthRequest(body, NoAuthHeader), emailTrimmed, 1, 0, "Failed to create user account",
                        AuthFail(""), AuthFailure(500, "Signup failed. Please try again."))
       ELSE AuthOutcome("signup", AuthRequest(body, NoAuthHeader), emailTrimmed, 1, 0, "", AuthFail(""),
                        AuthSuccess(generateToken(signedUp.user, emailTrimmed, t),
                                    [id |-> signedUp.user, email |-> emailTrimmed,
                                     name |-> nameTrimmed]))

LoginBody(email, password) == [email |-> email, password |-> password, name |-> ""]

handleLogin_LeaksProviderError(body, acc, tbl, t, idp, db) ==
    LET emailTrimmed == toLowerCase(trim(body.email))
        signed == signInWithPassword(acc, emailTrimmed, body.password, idp)
        userData == getUser(tbl, signed.user, db)
    IN IF emailTrimmed = "" \/ body.password = <<>>
       THEN AuthOutcome("login", AuthRequest(body, NoAuthHeader), emailTrimmed, 0, 0, "", AuthFail(""),
                        AuthFailure(400, "Email and password are required"))
       ELSE IF signed.error = NETWORK_ERROR
       THEN AuthOutcome("login", AuthRequest(body, NoAuthHeader), emailTrimmed, 1, 0, signed.error, AuthFail(""),
                        AuthFailure(500, "Login failed. Please try again."))
       ELSE IF signed.error # "" \/ signed.user = ""
       THEN AuthOutcome("login", AuthRequest(body, NoAuthHeader), emailTrimmed, 1, 0, signed.error, AuthFail(""),
                        AuthFailure(401, "Invalid email or password"))
       ELSE AuthOutcome("login", AuthRequest(body, NoAuthHeader), emailTrimmed, 1, 1, "", AuthFail(""),
                        AuthSuccess(generateToken(signed.user, emailTrimmed, t),
                                    [id |-> signed.user, email |-> emailTrimmed,
                                     name |-> IF userData.exists THEN userData.name
                                              ELSE "User"]))

handleLogin(body, acc, tbl, t, idp, db) ==
    LET emailTrimmed == toLowerCase(trim(body.email))
        signed == signInWithPassword(acc, emailTrimmed, body.password, idp)
        userData == getUser(tbl, signed.user, db)
    IN IF emailTrimmed = "" \/ body.password = <<>>
       THEN AuthOutcome("login", AuthRequest(body, NoAuthHeader), emailTrimmed, 0, 0, "", AuthFail(""),
                        AuthFailure(400, "Email and password are required"))
       ELSE IF signed.error # "" \/ signed.user = ""
       THEN AuthOutcome("login", AuthRequest(body, NoAuthHeader), emailTrimmed, 1, 0, signed.error, AuthFail(""),
                        AuthFailure(401, "Invalid email or password"))
       ELSE AuthOutcome("login", AuthRequest(body, NoAuthHeader), emailTrimmed, 1, 1, "", AuthFail(""),
                        AuthSuccess(generateToken(signed.user, emailTrimmed, t),
                                    [id |-> signed.user, email |-> emailTrimmed,
                                     name |-> IF userData.exists THEN userData.name
                                              ELSE "User"]))

handleRefresh_KeepsExpiry(headers, t) ==
    LET auth == verifyToken(headers, t) IN
    IF ~auth.ok
    THEN AuthOutcome("refresh", AuthRequest(NoBody, headers), "", 0, 0, "", auth, AuthFailure(401, auth.error))
    ELSE AuthOutcome("refresh", AuthRequest(NoBody, headers), "", 0, 0, "", auth,
                     AuthSuccess(SplitOnSpace(headers.value)[2][1].tok, NoUser))

handleRefresh(headers, t) ==
    LET auth == verifyToken(headers, t) IN
    IF ~auth.ok
    THEN AuthOutcome("refresh", AuthRequest(NoBody, headers), "", 0, 0, "", auth, AuthFailure(401, auth.error))
    ELSE AuthOutcome("refresh", AuthRequest(NoBody, headers), "", 0, 0, "", auth,
                     AuthSuccess(generateToken(auth.user_id, auth.email, t), NoUser))

handleVerify(headers, tbl, t, db) ==
    LET auth == verifyToken(headers, t)
        userData == getUser(tbl, auth.user_id, db)
    IN IF ~auth.ok
       THEN AuthOutcome("verify", AuthRequest(NoBody, headers), "", 0, 0, "", auth, AuthFailure(401, auth.error))
       ELSE IF ~userData.exists
       THEN AuthOutcome("verify", AuthRequest(NoBody, headers), "", 0, 1, "", auth, AuthFailure(404, "User not found"))
       ELSE AuthOutcome("verify", AuthRequest(NoBody, headers), "", 0, 1, "", auth,
                        AuthSuccess(NoTok, [id |-> auth.user_id, email |-> userData.email,
                                            name |-> userData.name]))

\* handler: the route taken for a method and a URL.  path.includes(part) is
\* a table over the URLs of the model.
pathIncludes(path, part) ==
    \/ path = "/api/auth/verify" /\ part = "/verify"
    \/ path = "/api/auth/signup" /\ part = "/signup"
    \/ path = "/api/auth/login" /\ part = "/login"
    \/ path = "/api/auth/refresh" /\ part = "/refresh"

authRoute(method, url) ==
    LET path == toLowerCase(url) IN
    IF method = "OPTIONS" THEN "cors"
    ELSE IF method = "GET"
    THEN IF pathIncludes(path, "/verify") THEN "verify" ELSE "404get"
    ELSE IF method = "POST"
    THEN IF pathIncludes(path, "/signup") THEN "signup"
         ELSE IF pathIncludes(path, "/login") THEN "login"
         ELSE IF pathIncludes(path, "/refresh") THEN "refresh"
         ELSE "404post"
    ELSE "405"

\* handler: the responses it sends itself, without calling a handle function.
authHandler(method, url) ==
    LET route == authRoute(method, url)
        resp == CASE route = "cors" -> AuthFailure(200, "")
                  [] route = "404get" -> AuthFailure(404, "Invalid auth endpoint. Use /verify")
                  [] route = "404post" ->
                       AuthFailure(404, "Invalid auth endpoint. Use /signup, /login, or /refresh")
                  [] OTHER -> AuthFailure(405, "Method not allowed")
    IN AuthOutcome(route, AuthRequest(NoBody, NoAuthHeader), "", 0, 0, "", AuthFail(""), resp)

(***************************************************************************)
(* The authentication endpoint as a state machine.  accounts is the         *)
(* identity provider's store, users the profile table, authSent the         *)
(* response on its way to the client; issued holds the token the client     *)
(* keeps, that of the latest response that carried one.                     *)
(***************************************************************************)
AuthIdle ==
    AuthOutcome("idle", AuthRequest(NoBody, NoAuthHeader), "", 0, 0, "", AuthFail(""), AuthFailure(0, ""))

\* The client keeps the token of a response that carries one.
Kept(out, t) ==
    IF out.resp.token = NoTok THEN issued
    ELSE { [token |-> out.resp.token, userId |-> out.resp.token.payload.user_id,
            email |-> out.resp.token.payload.email, at |-> t] }

\* The trigger handle_new_user inserts the profile row; when it fails the
\* account is created all the same.
Signup(body, idp, trigger) ==
    /\ authSent = AuthIdle
    /\ LET out == handleSignup(body, accounts, now, idp) IN
       /\ authSent' = out
       /\ issued' = Kept(out, now)
       /\ IF out.resp.success
          THEN /\ accounts' = [accounts EXCEPT ![out.email] =
                                  [exists |-> TRUE, password |-> body.password,
                                   id |-> out.resp.user.id]]
               /\ users' = IF trigger
                           THEN [users EXCEPT ![out.resp.user.id] =
                                    [exists |-> TRUE, email |-> out.email,
                                     name |-> out.resp.user.name]]
                           ELSE users
          ELSE UNCHANGED <<accounts, users>>
    /\ UNCHANGED <<now, ticks, authLog>>

Login(body, idp, db) ==
    /\ authSent = AuthIdle
    /\ authSent' = handleLogin(body, accounts, users, now, idp, db)
    /\ issued' = Kept(authSent', now)
    /\ UNCHANGED <<now, ticks, authLog, accounts, users>>

Refresh(headers) ==
    /\ authSent = AuthIdle
    /\ authSent' = handleRefresh(headers, now)
    /\ issued' = Kept(authSent', now)
    /\ UNCHANGED <<now, ticks, authLog, accounts, users>>

Verify(headers, db) ==
    /\ authSent = AuthIdle
    /\ authSent' = handleVerify(headers, users, now, db)
    /\ UNCHANGED <<now, ticks, issued, authLog, accounts, users>>

\* The profile row of a user is deleted from the users table; the account
\* and the tokens issued stay.
ProfileRemoved(u) ==
    /\ authSent = AuthIdle
    /\ users[u].exists
    /\ users' = [users EXCEPT ![u] = NoProfile]
    /\ UNCHANGED <<tokenVars, accounts, authSent>>

\* A request that handler answers itself: the preflight, an unknown path, a
\* method that is neither GET nor POST.
AuthOther(method, url) ==
    /\ authSent = AuthIdle
    /\ authRoute(method, url) \in {"cors", "404get", "404post", "405"}
    /\ authSent' = authHandler(method, url)
    /\ UNCHANGED <<tokenVars, accounts, users>>

AuthReceives ==
    /\ authSent # AuthIdle
    /\ authSent' = AuthIdle
    /\ UNCHANGED <<tokenVars, accounts, users>>

AuthInit ==
    /\ accounts = [e \in Emails |-> NoAccount]
    /\ users = [u \in UserIds |-> NoProfile]
    /\ authSent = AuthIdle

(***************************************************************************)
(* Web client: App.tsx, AuthContext.tsx and services/api.ts.  web holds    *)
(* the browser's location, the AuthProvider's user and loading, the token  *)
(* in localStorage, the calls in flight and the last thing that happened.  *)
(***************************************************************************)
ProtectedPaths == {"/", "/darshan", "/mera-vana", "/chikitsa"}

Paths == ProtectedPaths \cup {"/auth", "/settings"}

NoWebUser == "null"

NoStoredToken == "none"

\* What an API call comes back with: a 2xx response, a 401, another error
\* response, or no response at all.
CallOutcomes == {"ok", "401", "error", "network"}

Happened(what, outcome) == [what |-> what, outcome |-> outcome]

\* A page just loaded: useState(null), useState(true), the effect not yet run.
Loaded(path, token, visits) ==
    [loaded |-> TRUE, path |-> path, user |-> NoWebUser, loading |-> TRUE,
     token |-> token, effect |-> TRUE, inflight |-> {}, leaving |-> FALSE,
     visits |-> visits, last |-> Happened("load", "")]

NotLoaded ==
    [loaded |-> FALSE, path |-> "", user |-> NoWebUser, loading |-> FALSE,
     token |-> NoStoredToken, effect |-> FALSE, inflight |-> {}, leaving |-> FALSE,
     visits |-> 0, last |-> Happened("", "")]

\* authenticated: !!user, derived from the stored token instead.
authenticated_FromToken(w) == w.token # NoStoredToken

\* authenticated: !!user
authenticated(w) == w.user # NoWebUser

Shows(kind, what) == [kind |-> kind, what |-> what]

PageOf(path) ==
    CASE path = "/" -> "HomePage"
      [] path = "/darshan" -> "DarshanPage"
      [] path = "/mera-vana" -> "MeraVanaPage"
      [] path = "/chikitsa" -> "ChikitsaPage"
      [] OTHER -> "AuthPage"

ProtectedRoute(w, children) ==
    IF w.loading THEN Shows("spinner", "LoadingSpinner")
    ELSE IF ~authenticated(w) THEN Shows("navigate", "/auth")
    ELSE Shows("page", children)

PublicRoute(w, children) ==
    IF w.loading THEN Shows("spinner", "LoadingSpinner")
    ELSE IF authenticated(w) THEN Shows("navigate", "/")
    ELSE Shows("page", children)

\* AppRoutes: what is rendered at the current location.
AppRoutes(w) ==
    IF w.path = "/auth" THEN PublicRoute(w, PageOf(w.path))
    ELSE IF w.path \in ProtectedPaths THEN ProtectedRoute(w, PageOf(w.path))
    ELSE Shows("navigate", "/")

\* The interceptor, leaving the token in localStorage.
Intercepted_KeepsToken(w, outcome) ==
    IF outcome = "401" THEN [w EXCEPT !.leaving = TRUE] ELSE w

\* The response interceptor of apiClient: a 401 removes the token and sets
\* window.location.href to /auth, which loads the page anew.
Intercepted(w, outcome) ==
    IF outcome = "401"
    THEN [w EXCEPT !.token = NoStoredToken, !.leaving = TRUE]
    ELSE w

\* useEffect(() => { checkAuth() }, []), up to its await.
CheckAuth ==
    /\ web.loaded
    /\ web.effect
    /\ web' = IF web.token = NoStoredToken
              THEN [web EXCEPT !.effect = FALSE, !.loading = FALSE,
                               !.last = Happened("checkAuth", "no token")]
              ELSE [web EXCEPT !.effect = FALSE, !.inflight = @ \cup {"verify"},
                               !.last = Happened("checkAuth", "verifying")]

\* checkAuth after api.verifyToken() has returned: verifyToken turns every
\* failure into { success: false }.
CheckAuthReturns(outcome, user) ==
    /\ "verify" \in web.inflight
    /\ LET w == Intercepted(web, outcome) IN
       web' = IF outcome = "ok" /\ user # NoWebUser
              THEN [w EXCEPT !.inflight = @ \ {"verify"}, !.user = user,
                             !.loading = FALSE, !.last = Happened("verify", outcome)]
              ELSE [w EXCEPT !.inflight = @ \ {"verify"}, !.user = NoWebUser,
                             !.token = NoStoredToken, !.loading = FALSE,
                             !.last = Happened("verify",
                                               IF outcome = "ok" THEN "no user" ELSE outcome)]

\* login(data) and signup(data), up to the await: possible where AuthPage
\* is shown.
LoginOrSignup(what) ==
    /\ web.loaded
    /\ ~web.leaving
    /\ AppRoutes(web) = Shows("page", "AuthPage")
    /\ what \notin web.inflight
    /\ web' = [web EXCEPT !.loading = TRUE, !.inflight = @ \cup {what},
                          !.last = Happened(what, "sent")]

\* login and signup after the call: api.login stores the token of a 2xx
\* response and the provider sets the user; a failure is thrown on; in both
\* cases finally sets loading to false.
LoginOrSignupReturns(what, outcome) ==
    /\ what \in {"login", "signup"}
    /\ what \in web.inflight
    /\ LET w == Intercepted(web, outcome) IN
       web' = IF outcome = "ok"
              THEN [w EXCEPT !.inflight = @ \ {what}, !.token = "token", !.user = "uA",
                             !.loading = FALSE, !.last = Happened(what, outcome)]
              ELSE [w EXCEPT !.inflight = @ \ {what}, !.loading = FALSE,
                             !.last = Happened(what, outcome)]

\* logout(): setUser(null), removeToken(), window.location.href = '/auth'.
Logout ==
    /\ web.loaded
    /\ ~web.leaving
    /\ AppRoutes(web).kind = "page"
    /\ web.path \in ProtectedPaths
    /\ web' = [web EXCEPT !.user = NoWebUser, !.token = NoStoredToken, !.leaving = TRUE,
                          !.last = Happened("logout", "")]

\* A protected page calls the API (darshan, vana, chikitsa).
PageCalls ==
    /\ web.loaded
    /\ ~web.leaving
    /\ AppRoutes(web).kind = "page"
    /\ web.path \in ProtectedPaths
    /\ "api" \notin web.inflight
    /\ web' = [web EXCEPT !.inflight = @ \cup {"api"}, !.last = Happened("api", "sent")]

PageCallReturns(outcome) ==
    /\ "api" \in web.inflight
    /\ web' = [Intercepted(web, outcome) EXCEPT !.inflight = @ \ {"api"},
                                                !.last = Happened("api", outcome)]

\* <Navigate to=... replace />
Navigates ==
    /\ web.loaded
    /\ ~web.leaving
    /\ AppRoutes(web).kind = "navigate"
    /\ web' = [web EXCEPT !.path = AppRoutes(web).what, !.last = Happened("navigate", "")]

\* A link of the page shown is followed.
FollowsLink(path) ==
    /\ web.loaded
    /\ ~web.leaving
    /\ AppRoutes(web).kind = "page"
    /\ path # web.path
    /\ web' = [web EXCEPT !.path = path, !.last = Happened("link", "")]

\* window.location.href = '/auth' takes effect: the page is loaded anew,
\* the calls in flight are abandoned, localStorage stays.
Reloads ==
    /\ web.loaded
    /\ web.leaving
    /\ web' = Loaded("/auth", web.token, web.visits)

(***************************************************************************)
(* A client that signs up, logs in, adds a plant, lists, deletes and lists  *)
(* again: where it is in that sequence and the responses it has received    *)
(***************************************************************************)
NotStarted ==
    [pc |-> 0, signup |-> AuthFailure(0, ""), login |-> AuthFailure(0, ""),
     signedUpAt |-> 0, loggedInAt |-> 0,
     create |-> NoResp, list1 |-> NoResp, delete |-> NoResp, list2 |-> NoResp,
     get |-> NoResp]

(***************************************************************************)
(* Token service as a state machine                                        *)
(***************************************************************************)
TickSteps == {1, TokenLifetime - 1}

TokenInit ==
    /\ now = 0
    /\ ticks = 0
    /\ issued = {}
    /\ authLog = <<>>
    /\ plants = [p \in PlantIds |-> NoRow]
    /\ created = 0
    /\ reqs = [s \in Slots |-> Idle]
    /\ sent = NothingSent
    /\ darshan = NoExchange
    /\ AuthInit
    /\ journey = NotStarted
    /\ web = NotLoaded

\* Date.now() advances.
Tick(d) ==
    /\ ticks < MaxTicks
    /\ now' = now + d
    /\ ticks' = ticks + 1
    /\ authLog' = <<>>
    /\ UNCHANGED issued

\* generateToken(userId, email) at the current time.
GenerateToken(userId, email) ==
    /\ Cardinality(issued) < MaxTokens
    /\ issued' = issued \cup {[token |-> generateToken(userId, email, now),
                               userId |-> userId, email |-> email, at |-> now]}
    /\ authLog' = <<>>
    /\ UNCHANGED <<now, ticks>>

\* verifyToken(req) on a presented header.
VerifyToken(headers) ==
    /\ authLog' = <<[headers |-> headers, at |-> now,
                     res |-> verifyToken(headers, now)]>>
    /\ UNCHANGED <<now, ticks, issued>>

TokenNext ==
    \/ \E d \in TickSteps : Tick(d) /\ UNCHANGED <<vanaVars, darshanVars, authVars, journeyVars, webVars>>
    \/ \E u \in UserIds, e \in Emails : GenerateToken(u, e) /\ UNCHANGED <<vanaVars, darshanVars, authVars, journeyVars, webVars>>
    \/ \E h \in Headers : VerifyToken(h) /\ UNCHANGED <<vanaVars, darshanVars, authVars, journeyVars, webVars>>

SpecToken == TokenInit /\ [][TokenNext]_vars

(***************************************************************************)
(* Requests to the plant collection                                        *)
(***************************************************************************)
EmailOf(u) == IF u = "uA" THEN "a@example.com" ELSE "b@example.com"

\* One week after uA first logged in, every user has logged in again: uA's
\* first token has expired, the new ones are valid.
VanaNow == TokenLifetime

VanaIssued ==
    { [token |-> generateToken("uA", EmailOf("uA"), 0),
       userId |-> "uA", email |-> EmailOf("uA"), at |-> 0] }
    \cup { [token |-> generateToken(u, EmailOf(u), VanaNow),
            userId |-> u, email |-> EmailOf(u), at |-> VanaNow] : u \in UserIds }

VanaTokens == { i.token : i \in VanaIssued }

Live == { t \in VanaTokens : VanaNow < t.payload.exp }

\* The valid credentials, and one of each failure category.
GoodHeaders == { Bearer(t) : t \in Live }

BadHeaders ==
    {NoAuthHeader}
    \cup { AuthHeader(<<Word("Bearer"), Jwt(t)>>) : t \in Live }
    \cup { Bearer([t EXCEPT !.sig.flip = TRUE]) : t \in Live }
    \cup { Bearer(t) : t \in VanaTokens \ Live }

NoUrl == Url(NoId, NoId)

PostBodies ==
    { EmptyBody,
      [name |-> "Fern"],
      [name |-> "", species |-> "Nephrolepis"],
      [name |-> "Fern", species |-> ""],
      [name |-> "Fern", species |-> "Nephrolepis"],
      [name |-> "Fern", species |-> "Nephrolepis", user_id |-> "uB"] }

PutBodies == { EmptyBody, [notes |-> "repotted"], [user_id |-> "uB"] }

PutBodiesWithId == { [plant_id |-> 1], [plant_id |-> 1, notes |-> "repotted"] }

Shapes ==
    { Request("GET", NoAuthHeader, Url(p, NoId), EmptyBody) : p \in PlantIds \cup {NoId} }
    \cup { Request("POST", NoAuthHeader, NoUrl, b) : b \in PostBodies }
    \cup { Request(m, NoAuthHeader, Url(p, NoId), b) :
              m \in {"PUT", "PATCH"}, p \in PlantIds, b \in PutBodies }
    \cup { Request(m, NoAuthHeader, NoUrl, b) :
              m \in {"PUT", "PATCH"}, b \in PutBodiesWithId \cup {EmptyBody} }
    \cup { Request("DELETE", NoAuthHeader, u, EmptyBody) :
              u \in { Url(p, NoId) : p \in PlantIds \cup {NoId} } \cup { Url(NoId, 1) } }
    \cup { Request(m, NoAuthHeader, NoUrl, EmptyBody) : m \in {"OPTIONS", "HEAD"} }

\* The requests that would read or write plant 1 if they were let through.
Probes ==
    { Request("GET", NoAuthHeader, Url(1, NoId), EmptyBody),
      Request("GET", NoAuthHeader, NoUrl, EmptyBody),
      Request("POST", NoAuthHeader, NoUrl, [name |-> "Fern", species |-> "Nephrolepis"]),
      Request("PUT", NoAuthHeader, Url(1, NoId), [notes |-> "repotted"]),
      Request("PATCH", NoAuthHeader, NoUrl, [plant_id |-> 1, notes |-> "repotted"]),
      Request("DELETE", NoAuthHeader, Url(1, NoId), EmptyBody) }

VanaRequests ==
    { [r EXCEPT !.headers = h] : r \in Shapes, h \in GoodHeaders }
    \cup { [r EXCEPT !.headers = h] : r \in Probes, h \in BadHeaders }

GetRequests == { r \in VanaRequests : r.method = "GET" }

PostRequests == { r \in VanaRequests : r.method = "POST" }

PutRequests == { r \in VanaRequests : r.method \in {"PUT", "PATCH"} }

DeleteRequests == { r \in VanaRequests : r.method = "DELETE" }

OtherRequests == { r \in VanaRequests : r.method \in {"OPTIONS", "HEAD"} }

VanaInit ==
    /\ now = VanaNow
    /\ ticks = 1
    /\ issued = VanaIssued
    /\ authLog = <<>>
    /\ plants = [p \in PlantIds |-> NoRow]
    /\ created = 0
    /\ reqs = [s \in Slots |-> Idle]
    /\ sent = NothingSent
    /\ darshan = NoExchange
    /\ AuthInit
    /\ journey = NotStarted
    /\ web = NotLoaded

VanaNext ==
    \/ \E r \in GetRequests, db \in DbOutcomes : HandleGet(r, db) /\ UNCHANGED <<tokenVars, darshanVars, authVars, journeyVars, webVars>>
    \/ \E r \in PostRequests, db \in DbOutcomes : HandlePost(r, db) /\ UNCHANGED <<tokenVars, darshanVars, authVars, journeyVars, webVars>>
    \/ \E r \in PutRequests, db \in DbOutcomes : HandlePut(r, db) /\ UNCHANGED <<tokenVars, darshanVars, authVars, journeyVars, webVars>>
    \/ \E s \in Slots, db \in DbOutcomes : UpdateWrite(s, db) /\ UNCHANGED <<tokenVars, darshanVars, authVars, journeyVars, webVars>>
    \/ \E r \in DeleteRequests, db \in DbOutcomes : HandleDelete(r, db) /\ UNCHANGED <<tokenVars, darshanVars, authVars, journeyVars, webVars>>
    \/ \E s \in Slots, db \in DbOutcomes : DeleteWrite(s, db) /\ UNCHANGED <<tokenVars, darshanVars, authVars, journeyVars, webVars>>
    \/ \E r \in OtherRequests : HandleOther(r) /\ UNCHANGED <<tokenVars, darshanVars, authVars, journeyVars, webVars>>
    \/ ClientReceives /\ UNCHANGED <<tokenVars, darshanVars, authVars, journeyVars, webVars>>

SpecVana == VanaInit /\ [][VanaNext]_vars

(***************************************************************************)
(* A garden tended over several days: the plant collection endpoint with   *)
(* bodies that carry watering data, and a clock that advances by days      *)
(***************************************************************************)
Gardener == Bearer(generateToken("uA", EmailOf("uA"), VanaNow))

Neighbour == Bearer(generateToken("uB", EmailOf("uB"), VanaNow))

WateredOn == Today(VanaNow) - 1

GardenPostBodies ==
    { [name |-> "Tulsi", species |-> "Ocimum"],
      [name |-> "Tulsi", species |-> "Ocimum", last_watered |-> WateredOn],
      [name |-> "Tulsi", species |-> "Ocimum", last_watered |-> WateredOn,
       watering_frequency_days |-> 3] }

GardenPutBodies ==
    { [notes |-> "repotted"],
      [last_watered |-> WateredOn + 3],
      [watering_frequency_days |-> 5],
      [last_watered |-> WateredOn + 3, watering_frequency_days |-> 5] }

\* The gardener creates, lists, reads, updates and deletes; the neighbour
\* creates and lists.
GardenGets ==
    { Request("GET", Gardener, Url(p, NoId), EmptyBody) : p \in PlantIds \cup {NoId} }
    \cup { Request("GET", Neighbour, NoUrl, EmptyBody) }

GardenPosts ==
    { Request("POST", Gardener, NoUrl, b) : b \in GardenPostBodies }
    \cup { Request("POST", Neighbour, NoUrl, [name |-> "Neem", species |-> "Azadirachta"]) }

GardenPuts ==
    { Request("PUT", Gardener, Url(p, NoId), b) : p \in PlantIds, b \in GardenPutBodies }

GardenDeletes == { Request("DELETE", Gardener, Url(p, NoId), EmptyBody) : p \in PlantIds }

\* A day passes between two requests.
DayPasses ==
    /\ Ready
    /\ ticks < MaxTicks
    /\ now' = now + SecondsPerDay
    /\ ticks' = ticks + 1
    /\ UNCHANGED <<issued, authLog, vanaVars, darshanVars, authVars, journeyVars, webVars>>

\* Each request is sent after the response to the one before it has arrived.
OneAtATime == \A s \in Slots : reqs[s] = Idle

GardenNext ==
    \/ \E r \in GardenGets : HandleGet(r, "ok") /\ UNCHANGED <<tokenVars, darshanVars, authVars, journeyVars, webVars>>
    \/ \E r \in GardenPosts : HandlePost(r, "ok") /\ UNCHANGED <<tokenVars, darshanVars, authVars, journeyVars, webVars>>
    \/ \E r \in GardenPuts : OneAtATime /\ HandlePut(r, "ok") /\ UNCHANGED <<tokenVars, darshanVars, authVars, journeyVars, webVars>>
    \/ \E s \in Slots : UpdateWrite(s, "ok") /\ UNCHANGED <<tokenVars, darshanVars, authVars, journeyVars, webVars>>
    \/ \E r \in GardenDeletes : OneAtATime /\ HandleDelete(r, "ok") /\ UNCHANGED <<tokenVars, darshanVars, authVars, journeyVars, webVars>>
    \/ \E s \in Slots : DeleteWrite(s, "ok") /\ UNCHANGED <<tokenVars, darshanVars, authVars, journeyVars, webVars>>
    \/ ClientReceives /\ UNCHANGED <<tokenVars, darshanVars, authVars, journeyVars, webVars>>
    \/ DayPasses

SpecGarden == VanaInit /\ [][GardenNext]_vars

(***************************************************************************)
(* Requests to the authentication endpoint                                 *)
(***************************************************************************)
RawEmails == {"", "   ", "a@example.com", " A@Example.COM ", "b@example.com", "a.example.com", "@"}

ShortPassword == <<1, 2, 3, 4, 5>>

GoodPassword == <<1, 2, 3, 4, 5, 6>>

WrongPassword == <<6, 5, 4, 3, 2, 1>>

SignupBodies ==
    { SignupBody(e, p, n) :
        e \in RawEmails, p \in {<<>>, ShortPassword, GoodPassword}, n \in {"", "   ", " Asha "} }

LoginBodies ==
    { LoginBody(e, p) : e \in RawEmails, p \in {<<>>, GoodPassword, WrongPassword} }

\* The headers a client can present: the token it keeps, as issued, altered
\* or without the space; a token forged for it; none.
PresentedHeaders ==
    {NoAuthHeader, AuthHeader(<<Word("Bearer")>>)}
    \cup UNION { { Bearer(i.token),
                   AuthHeader(<<Word("bearer"), SP, Jwt(i.token)>>),
                   AuthHeader(<<Word("Bearer"), Jwt(i.token)>>),
                   Bearer([i.token EXCEPT !.sig.flip = TRUE]),
                   Bearer(jwt_sign(i.token.payload, OtherSecret)) } : i \in issued }

AuthMethods == {"GET", "POST", "PUT", "OPTIONS"}

AuthUrls ==
    {"/api/auth/verify", "/api/auth/signup", "/api/auth/login", "/api/auth/refresh",
     "/api/auth/LOGIN", "/api/auth/logout"}

AuthNext ==
    \/ \E d \in TickSteps :
          authSent = AuthIdle /\ Tick(d) /\ UNCHANGED <<vanaVars, darshanVars, authVars, journeyVars, webVars>>
    \/ \E b \in SignupBodies, idp \in IdpOutcomes, trigger \in BOOLEAN :
          Signup(b, idp, trigger) /\ UNCHANGED <<vanaVars, darshanVars, journeyVars, webVars>>
    \/ \E b \in LoginBodies, idp \in IdpOutcomes, db \in DbOutcomes :
          Login(b, idp, db) /\ UNCHANGED <<vanaVars, darshanVars, journeyVars, webVars>>
    \/ \E h \in PresentedHeaders : Refresh(h) /\ UNCHANGED <<vanaVars, darshanVars, journeyVars, webVars>>
    \/ \E h \in PresentedHeaders, db \in DbOutcomes : Verify(h, db) /\ UNCHANGED <<vanaVars, darshanVars, journeyVars, webVars>>
    \/ \E m \in AuthMethods, u \in AuthUrls :
          AuthOther(m, u) /\ UNCHANGED <<vanaVars, darshanVars, journeyVars, webVars>>
    \/ \E u \in UserIds : ProfileRemoved(u) /\ UNCHANGED <<vanaVars, darshanVars, journeyVars, webVars>>
    \/ AuthReceives /\ UNCHANGED <<vanaVars, darshanVars, journeyVars, webVars>>

SpecAuth == TokenInit /\ [][AuthNext]_vars

(***************************************************************************)
(* The client's sequence, with a neighbour using the plant collection       *)
(* and days passing in between                                              *)
(***************************************************************************)
Ana == SignupBody("a@example.com", GoodPassword, " Asha ")

FernBody == [name |-> "Fern", species |-> "Nephrolepis"]

AnaHeader == Bearer(journey.login.token)

JourneyInit ==
    /\ now = VanaNow
    /\ ticks = 1
    /\ issued = {}
    /\ authLog = <<>>
    /\ plants = [p \in PlantIds |-> NoRow]
    /\ created = 0
    /\ reqs = [s \in Slots |-> Idle]
    /\ sent = NothingSent
    /\ darshan = NoExchange
    /\ accounts = [e \in Emails |->
                      IF e = "b@example.com"
                      THEN [exists |-> TRUE, password |-> GoodPassword, id |-> "uB"]
                      ELSE NoAccount]
    /\ users = [u \in UserIds |->
                   IF u = "uB"
                   THEN [exists |-> TRUE, email |-> "b@example.com", name |-> "Bala"]
                   ELSE NoProfile]
    /\ authSent = AuthIdle
    /\ journey = NotStarted
    /\ web = NotLoaded

JourneySignup ==
    /\ journey.pc = 0
    /\ \E trigger \in BOOLEAN : Signup(Ana, "ok", trigger)
    /\ journey' = [journey EXCEPT !.pc = 1, !.signup = authSent'.resp, !.signedUpAt = now]
    /\ UNCHANGED <<vanaVars, darshanVars, webVars>>

JourneyLogin ==
    /\ journey.pc = 1
    /\ \E db \in DbOutcomes : Login(LoginBody(Ana.email, Ana.password), "ok", db)
    /\ journey' = [journey EXCEPT !.pc = 2, !.login = authSent'.resp, !.loggedInAt = now]
    /\ UNCHANGED <<vanaVars, darshanVars, webVars>>

JourneyCreate ==
    /\ journey.pc = 2
    /\ HandlePost(Request("POST", AnaHeader, NoUrl, FernBody), "ok")
    /\ journey' = [journey EXCEPT !.pc = 3, !.create = sent'.out.resp]
    /\ UNCHANGED <<tokenVars, darshanVars, authVars, webVars>>

JourneyList ==
    /\ journey.pc \in {3, 6}
    /\ HandleGet(Request("GET", AnaHeader, NoUrl, EmptyBody), "ok")
    /\ journey' = IF journey.pc = 3
                  THEN [journey EXCEPT !.pc = 4, !.list1 = sent'.out.resp]
                  ELSE [journey EXCEPT !.pc = 7, !.list2 = sent'.out.resp]
    /\ UNCHANGED <<tokenVars, darshanVars, authVars, webVars>>

\* handleDelete up to the first query: it answers at once or goes on to the
\* second.
JourneyDelete ==
    /\ journey.pc = 4
    /\ HandleDelete(Request("DELETE", AnaHeader, Url(journey.create.plant_id, NoId), EmptyBody),
                    "ok")
    /\ journey' = IF sent' # sent
                  THEN [journey EXCEPT !.pc = 6, !.delete = sent'.out.resp]
                  ELSE [journey EXCEPT !.pc = 5]
    /\ UNCHANGED <<tokenVars, darshanVars, authVars, webVars>>

JourneyDeleteWrite ==
    /\ journey.pc = 5
    /\ \E s \in Slots : reqs[s].auth.user_id = "uA" /\ DeleteWrite(s, "ok")
    /\ journey' = [journey EXCEPT !.pc = 6, !.delete = sent'.out.resp]
    /\ UNCHANGED <<tokenVars, darshanVars, authVars, webVars>>

JourneyGet ==
    /\ journey.pc = 7
    /\ HandleGet(Request("GET", AnaHeader, Url(journey.create.plant_id, NoId), EmptyBody), "ok")
    /\ journey' = [journey EXCEPT !.pc = 8, !.get = sent'.out.resp]
    /\ UNCHANGED <<tokenVars, darshanVars, authVars, webVars>>

\* The neighbour adds plants, lists, and tries to delete whatever id there is.
NeighbourActs ==
    \/ HandlePost(Request("POST", Neighbour, NoUrl, [name |-> "Neem", species |-> "Azadirachta"]),
                  "ok")
    \/ HandleGet(Request("GET", Neighbour, NoUrl, EmptyBody), "ok")
    \/ \E p \in PlantIds :
          HandleDelete(Request("DELETE", Neighbour, Url(p, NoId), EmptyBody), "ok")
    \/ \E s \in Slots : reqs[s].auth.user_id = "uB" /\ DeleteWrite(s, "ok")

JourneyNext ==
    \/ JourneySignup
    \/ JourneyLogin
    \/ JourneyCreate
    \/ JourneyList
    \/ JourneyDelete
    \/ JourneyDeleteWrite
    \/ JourneyGet
    \/ NeighbourActs /\ UNCHANGED <<tokenVars, darshanVars, authVars, journeyVars, webVars>>
    \/ ClientReceives /\ UNCHANGED <<tokenVars, darshanVars, authVars, journeyVars, webVars>>
    \/ AuthReceives /\ UNCHANGED <<vanaVars, darshanVars, journeyVars, webVars>>
    \/ authSent = AuthIdle /\ DayPasses

SpecJourney == JourneyInit /\ [][JourneyNext]_vars

(***************************************************************************)
(* Requests to the identification endpoint                                 *)
(***************************************************************************)
GoodData ==
    [kind |-> "object", saysJSON |-> FALSE, has |-> requiredFields,
     confidence |-> JNumber(9),
     objects |-> [f \in requiredObjects |-> JKind("object")],
     interesting_facts |-> JArray(3), benefits |-> JArray(2),
     suitable_rooms |-> JArray(1)]

OtherKinds == {"undefined", "null", "array", "string", "number"}

\* The good reply and the replies that differ from it in one place.
Replies ==
    {GoodData}
    \cup { [NoData EXCEPT !.kind = k] : k \in {"null", "array", "string", "number"} }
    \cup { [NoData EXCEPT !.kind = "string", !.saysJSON = TRUE] }
    \cup { [GoodData EXCEPT !.has = requiredFields \ {f}] : f \in requiredFields }
    \cup { [GoodData EXCEPT !.confidence = c] :
              c \in { JNumber(n) : n \in {-1, 0, 10, 11, 17} }
                    \cup { JKind("string"), JKind("null") } }
    \cup { [GoodData EXCEPT !.objects[f] = JKind(k)] :
              f \in requiredObjects, k \in OtherKinds }
    \cup { [GoodData EXCEPT !.interesting_facts = v] :
              v \in { JArray(0), JArray(1), JKind("undefined"), JKind("object"), JKind("string") } }
    \cup { [GoodData EXCEPT !.benefits = v] :
              v \in { JArray(0), JKind("undefined"), JKind("string") } }
    \cup { [GoodData EXCEPT !.suitable_rooms = v] :
              v \in { JArray(0), JKind("undefined"), JKind("null") } }

Wrappings(d) ==
    { <<JsonText(d)>>,
      <<FenceJson, JsonText(d), Fence>>,
      <<Fence, JsonText(d), Fence>>,
      <<Prose, FenceJson, JsonText(d), Fence, Prose>> }

Contents ==
    UNION { Wrappings(d) : d \in Replies }
    \cup { <<>>, <<Prose>>, <<FenceJson, Prose, Fence>>, <<FenceJson, Fence>>,
           <<JsonText(GoodData), Prose>>, <<Prose, JsonText(GoodData)>>,
           <<FenceJson, JsonText(GoodData)>>,
           <<Fence, Prose, Fence, JsonText(GoodData)>>,
           <<FenceJson, JsonText(GoodData), FenceJson, Prose>> }

GatewayOutcomes ==
    { GatewayReply(c) : c \in Contents }
    \cup { GatewayError(st, j) : st \in {429, 500, 0}, j \in BOOLEAN }
    \cup { GatewayNoContent }

DarshanRequests ==
    { DarshanRequest("POST", u, b) :
        u \in {"", "https://example.com/leaf.jpg"},
        b \in {"", "AAAA", "data:image/png;base64,AAAA"} }
    \cup { DarshanRequest(m, "https://example.com/leaf.jpg", "") : m \in {"OPTIONS", "GET"} }

DarshanInit == TokenInit

\* One request to /api/darshan, handled to its response.
DarshanHandle(req, gw) ==
    /\ darshan = NoExchange
    /\ darshan' = darshanHandler(req, gw)
    /\ UNCHANGED <<tokenVars, vanaVars, authVars, journeyVars, webVars>>

\* The caller takes the response; the endpoint keeps nothing of the exchange.
DarshanReceives ==
    /\ darshan # NoExchange
    /\ darshan' = NoExchange
    /\ UNCHANGED <<tokenVars, vanaVars, authVars, journeyVars, webVars>>

DarshanNext ==
    \/ \E req \in DarshanRequests, gw \in GatewayOutcomes : DarshanHandle(req, gw)
    \/ DarshanReceives

SpecDarshan == DarshanInit /\ [][DarshanNext]_vars

(***************************************************************************)
(* The three endpoints of the deployment.  Each is a function of its own   *)
(* and they share the tables only; a behaviour exercises one of them,      *)
(* starting from the tokens of VanaInit.                                   *)
(***************************************************************************)
VanaQuiet ==
    /\ plants = [p \in PlantIds |-> NoRow]
    /\ created = 0
    /\ reqs = [s \in Slots |-> Idle]
    /\ sent = NothingSent

AuthQuiet ==
    /\ accounts = [e \in Emails |-> NoAccount]
    /\ users = [u \in UserIds |-> NoProfile]
    /\ issued = VanaIssued
    /\ authSent = AuthIdle

DarshanQuiet == darshan = NoExchange

ServiceNext ==
    \/ AuthQuiet /\ DarshanQuiet /\ VanaNext
    \/ VanaQuiet /\ DarshanQuiet /\
         \E b \in SignupBodies, idp \in IdpOutcomes, trigger \in BOOLEAN :
            Signup(b, idp, trigger) /\ UNCHANGED <<vanaVars, darshanVars, journeyVars, webVars>>
    \/ VanaQuiet /\ DarshanQuiet /\
         \E b \in LoginBodies, idp \in IdpOutcomes, db \in DbOutcomes :
            Login(b, idp, db) /\ UNCHANGED <<vanaVars, darshanVars, journeyVars, webVars>>
    \/ VanaQuiet /\ DarshanQuiet /\
         \E h \in PresentedHeaders : Refresh(h) /\ UNCHANGED <<vanaVars, darshanVars, journeyVars, webVars>>
    \/ VanaQuiet /\ DarshanQuiet /\
         \E h \in PresentedHeaders, db \in DbOutcomes :
            Verify(h, db) /\ UNCHANGED <<vanaVars, darshanVars, journeyVars, webVars>>
    \/ VanaQuiet /\ DarshanQuiet /\
         \E m \in AuthMethods, u \in AuthUrls :
            AuthOther(m, u) /\ UNCHANGED <<vanaVars, darshanVars, journeyVars, webVars>>
    \/ AuthReceives /\ UNCHANGED <<vanaVars, darshanVars, journeyVars, webVars>>
    \/ VanaQuiet /\ AuthQuiet /\ DarshanNext

SpecService == VanaInit /\ [][ServiceNext]_vars

MaxVisits == 1

\* The address bar: the application is loaded at a path of the user's choice.
Visits(path) ==
    /\ web.loaded
    /\ ~web.leaving
    /\ web.visits < MaxVisits
    /\ web' = Loaded(path, web.token, web.visits + 1)

WebInit ==
    /\ now = VanaNow
    /\ ticks = 1
    /\ issued = {}
    /\ authLog = <<>>
    /\ plants = [p \in PlantIds |-> NoRow]
    /\ created = 0
    /\ reqs = [s \in Slots |-> Idle]
    /\ sent = NothingSent
    /\ darshan = NoExchange
    /\ accounts = [e \in Emails |-> NoAccount]
    /\ users = [u \in UserIds |-> NoProfile]
    /\ authSent = AuthIdle
    /\ journey = NotStarted
    /\ \E path \in Paths, token \in {NoStoredToken, "token"} : web = Loaded(path, token, 0)

WebReturns ==
    \/ \E outcome \in CallOutcomes, user \in {"uA", NoWebUser} : CheckAuthReturns(outcome, user)
    \/ \E what \in {"login", "signup"}, outcome \in CallOutcomes : LoginOrSignupReturns(what, outcome)

WebNext ==
    /\ \/ CheckAuth
       \/ WebReturns
       \/ \E what \in {"login", "signup"} : LoginOrSignup(what)
       \/ Logout
       \/ PageCalls
       \/ \E outcome \in CallOutcomes : PageCallReturns(outcome)
       \/ Navigates
       \/ \E path \in Paths : FollowsLink(path)
       \/ Reloads
       \/ \E path \in Paths : Visits(path)
    /\ UNCHANGED <<tokenVars, vanaVars, darshanVars, authVars, journeyVars>>

SpecWeb == WebInit /\ [][WebNext]_vars

\* Every call of apiClient ends, with a response or with the timeout of
\* API_TIMEOUT; effects run after the mount; an assignment to
\* window.location.href loads the page.
WebCalls == WebReturns /\ UNCHANGED <<tokenVars, vanaVars, darshanVars, authVars, journeyVars>>

SpecWebLive ==
    /\ SpecWeb
    /\ WF_vars(CheckAuth /\ UNCHANGED <<tokenVars, vanaVars, darshanVars, authVars, journeyVars>>)
    /\ WF_vars(WebCalls)
    /\ WF_vars(Reloads /\ UNCHANGED <<tokenVars, vanaVars, darshanVars, authVars, journeyVars>>)

(***************************************************************************)
(* Properties of the plant collection endpoint (SpecVana)                  *)
(***************************************************************************)
DataServiceFailed(out) ==
    out.resp.error \in { Plain("Failed to fetch plants. Please try again."),
                         Plain("Failed to add plant. Please try again."),
                         FailedToUpdate(NETWORK_ERROR),
                         FailedToRemove(NETWORK_ERROR) }

\* C1 (as claimed): when the data service answers, every get, update or
\* delete by a caller on a plant another user owns is answered 404, without
\* plant data, and leaves the table as it was.
C1_OwnershipIsolation ==
    (/\ sent.out.op \in {"get", "put", "delete"}
     /\ sent.out.target = "foreign"
     /\ ~DataServiceFailed(sent.out))
    => /\ sent.out.resp.status = 404
       /\ ~sent.out.resp.success
       /\ sent.out.resp.rows = <<>>
       /\ ~sent.wrote

\* C2 (as claimed): the second query of an update or a delete never changes
\* a row whose owner, when that query runs, is not the caller.
C2_NoCrossTenantWrite ==
    (sent.out.op \in {"put", "delete"} /\ sent.wrote)
    => sent.owner = sent.out.auth.user_id

\* The response a caller gets from the first step of a request, for every
\* order in which the data service may list the caller's rows.
FirstResponses(tbl, req) ==
    CASE req.method = "GET" ->
           { handleGet(tbl, req, now, "ok", rows).resp :
               rows \in getMeraVana(tbl, verifyToken(req.headers, now).user_id) }
      [] req.method \in {"PUT", "PATCH"} -> { handlePut(tbl, req, now, "ok").resp }
      [] req.method = "DELETE" -> { handleDelete(tbl, req, now, "ok").resp }
      [] OTHER -> {}

AddressedId(req) ==
    IF req.method = "GET" THEN handleGet(plants, req, now, "ok", <<>>).plantId
    ELSE IF req.method = "DELETE" THEN handleDelete(plants, req, now, "ok").plantId
    ELSE handlePut(plants, req, now, "ok").plantId

\* C3 (as claimed): for every authenticated get, update or delete that
\* addresses a plant of another user, the response is the one the same
\* request gets from the table without that row.
C3_AntiEnumeration ==
    \A req \in GetRequests \cup PutRequests \cup DeleteRequests :
        LET caller == verifyToken(req.headers, now)
            p == AddressedId(req)
        IN (caller.ok /\ p # NoId /\ plants[p].exists /\ plants[p].user_id # caller.user_id)
           => FirstResponses(plants, req) = FirstResponses([plants EXCEPT ![p] = NoRow], req)

\* C10: a plant collection request whose token verification fails is
\* answered 401 with verifyToken's message, after no data service call: no
\* row is returned, no id is returned, the table is unchanged; and no handler
\* is suspended between its queries without a verified caller.
C10_AuthGuardFirst ==
    /\ (sent.out.op \in {"get", "post", "put", "delete"} /\ ~sent.out.auth.ok)
       => /\ sent.out.resp = Failure(401, Plain(sent.out.auth.error))
          /\ sent.out.dbCalls = 0
          /\ ~sent.wrote
    /\ \A s \in Slots : reqs[s] # Idle => reqs[s].auth.ok
    /\ \A p \in PlantIds : plants[p].exists => plants[p].user_id \in UserIds

C10_Witness ==
    /\ sent.out.op = "post"
    /\ sent.out.auth.error = MSG_INVALID
    /\ sent.out.resp.status = 401
    /\ \E p \in PlantIds : plants[p].exists
    /\ \E s \in Slots : reqs[s].op = "put"

\* C11: every row inserted by POST /vana is owned by the user of that
\* request's verified token, whatever the body carries.
C11_ForcedOwnershipOnCreate ==
    (sent.out.op = "post" /\ sent.wrote)
    => /\ sent.out.auth.ok
       /\ plants[sent.out.plantId].exists
       /\ plants[sent.out.plantId].user_id = sent.out.auth.user_id

\* A plant was created from a body whose user_id names another user.
C11_Witness ==
    /\ sent.out.op = "post"
    /\ sent.wrote
    /\ Has(sent.out.updates, "user_id")
    /\ sent.out.updates["user_id"] # sent.out.auth.user_id

\* The messages of the data service, as they reach the wrapper.
StoreTexts == {PGRST116, PGRST204, PG23505, NETWORK_ERROR}

\* C21 (as claimed): for list, get, create, update and delete by a verified
\* caller, a plant that does not exist is answered 404, a request refused
\* before any data service call is answered 400, and a 500 carries none of
\* the data service's own error text.
C21_StoreErrorMapping ==
    LET out == sent.out IN
    (out.op \in {"get", "post", "put", "delete"} /\ out.auth.ok)
    => /\ (out.target = "absent" /\ ~DataServiceFailed(out)) => out.resp.status = 404
       /\ out.dbCalls = 0 => out.resp.status = 400
       /\ out.resp.status = 500
          => \A i \in 1..Len(out.resp.error) : out.resp.error[i] \notin StoreTexts

\* C25 (as claimed): an update that passed its ownership check and whose
\* plant was deleted before its write step is answered as a failure, and no
\* row of that id exists after the write.
C25_UpdateDeleteRace ==
    (/\ sent.out.op = "put"
     /\ sent.out.dbCalls = 2
     /\ sent.out.target = "own"
     /\ sent.owner = ""
     /\ ~DataServiceFailed(sent.out))
    => /\ ~sent.out.resp.success
       /\ sent.out.resp.status = 500
       /\ ~plants[sent.out.plantId].exists

\* What handlePost answers before the insert, for each request of the model.
CreateRefusals ==
    \A req \in PostRequests, db \in DbOutcomes :
        LET out == handlePost(req, now, db)
            incomplete == ~TruthyText(req.body, "name") \/ ~TruthyText(req.body, "species")
        IN out.auth.ok
           => /\ incomplete <=> out.resp.status = 400
              /\ incomplete => out.dbCalls = 0 /\ out.resp.plant_id = NoId
              /\ (~incomplete /\ db = "error")
                 => out.resp.status = 500 /\ ~out.resp.success /\ out.resp.plant_id = NoId
              /\ (~incomplete /\ db = "ok") => out.resp = NoResp

\* The response to a create, against the table it leaves.
CreateAnswered ==
    (sent.out.op = "post" /\ sent.out.auth.ok)
    => /\ sent.out.resp.status \in {200, 400, 500}
       /\ sent.out.resp.status \in {400, 500}
          => ~sent.out.resp.success /\ sent.out.resp.plant_id = NoId /\ ~sent.wrote
       /\ sent.out.resp.plant_id # NoId
          => /\ sent.out.resp.status = 200
             /\ sent.out.resp.plant_id \in PlantIds
             /\ plants[sent.out.resp.plant_id].exists
             /\ plants[sent.out.resp.plant_id].user_id = sent.out.auth.user_id

\* The step that answers a create with a failure leaves the table as it was.
CreateFailureWritesNothing ==
    (sent = NothingSent /\ sent'.out.op = "post" /\ ~sent'.out.resp.success)
    => plants' = plants /\ created' = created

\* C26: a verified POST /vana whose name or species is missing or empty is
\* answered 400 and inserts no row; a failure of the data service during the
\* insert is answered 500 without a plant id; a plant id is returned only
\* when a row of that id owned by the caller now exists.
C26_CreateValidation ==
    [](CreateRefusals /\ CreateAnswered) /\ [][CreateFailureWritesNothing]_vars

\* With one plant in the table, a create without species was answered 400.
C26_Witness ==
    /\ sent.out.op = "post"
    /\ sent.out.auth.ok
    /\ sent.out.resp = Failure(400, Plain("Plant species is required"))
    /\ \E p \in PlantIds : plants[p].exists

\* A create during which the data service failed was answered 500.
C26_WitnessDataService ==
    /\ sent.out.op = "post"
    /\ sent.out.auth.ok
    /\ sent.out.resp.status = 500
    /\ sent.out.dbCalls = 1

\* No step changes the owner of a row that stays in the table.
OwnerKept ==
    \A p \in PlantIds :
        (plants[p].exists /\ plants'[p].exists) => plants'[p].user_id = plants[p].user_id

\* C27 (as claimed): no operation of any user changes the owner of a plant
\* after its creation; an owner's PUT or PATCH whose body carries the
\* user_id of another user does not transfer the plant.
C27_OwnerImmutability == [][OwnerKept]_vars

(***************************************************************************)
(* Properties of the garden (SpecGarden)                                   *)
(***************************************************************************)
\* This step answers a request of kind op with success.
Succeeds(op) ==
    /\ sent' # sent
    /\ sent'.out.op = op
    /\ sent'.out.resp.success

\* C14 (as claimed): a create with last_watered D and frequency f stores
\* next_watering_due = D + f; a successful update that changes last_watered
\* or the frequency stores next_watering_due recomputed from the current
\* values (the interval in force is kept when only last_watered changes); a
\* successful update that changes neither leaves next_watering_due alone.
C14_WateringDerivation ==
    [][ LET id == sent'.out.plantId
            u == sent'.out.updates
            old == plants[id]
            new == plants'[id]
        IN /\ (/\ Succeeds("post")
               /\ Has(u, "last_watered") /\ Has(u, "watering_frequency_days"))
              => new.next_watering_due = u["last_watered"] + u["watering_frequency_days"]
           /\ (Succeeds("put") /\ old.exists /\ old.last_watered # NullDate)
              => /\ (Has(u, "last_watered") /\ ~Has(u, "watering_frequency_days"))
                    => new.next_watering_due =
                          u["last_watered"] + (old.next_watering_due - old.last_watered)
                 /\ (Has(u, "last_watered") /\ Has(u, "watering_frequency_days"))
                    => new.next_watering_due =
                          u["last_watered"] + u["watering_frequency_days"]
                 /\ (~Has(u, "last_watered") /\ Has(u, "watering_frequency_days"))
                    => new.next_watering_due =
                          old.last_watered + u["watering_frequency_days"]
                 /\ (~Has(u, "last_watered") /\ ~Has(u, "watering_frequency_days"))
                    => new.next_watering_due = old.next_watering_due
      ]_vars

C19_ListForUser ==
    (sent.out.op = "get" /\ sent.out.plantId = NoId /\ sent.out.auth.ok)
    => LET rows == sent.out.resp.rows
           n == Len(rows)
       IN /\ sent.out.resp.success
          /\ sent.out.resp.status = 200
          /\ sent.out.resp.count = n
          /\ { rows[i].id : i \in 1..n } = OwnedIds(plants, sent.out.auth.user_id)
          /\ n = Cardinality(OwnedIds(plants, sent.out.auth.user_id))
          /\ \A i \in 1..n : rows[i].row = plants[rows[i].id]
          /\ \A i, j \in 1..n :
                i < j => rows[i].row.added_date >= rows[j].row.added_date

\* Two plants added on different days were listed.
C19_Witness ==
    /\ sent.out.op = "get"
    /\ sent.out.plantId = NoId
    /\ Len(sent.out.resp.rows) = 2
    /\ sent.out.resp.rows[1].row.added_date > sent.out.resp.rows[2].row.added_date
    /\ sent.out.resp.rows[1].id > sent.out.resp.rows[2].id

\* The neighbour owns a plant and the gardener's list is empty.
C19_WitnessEmpty ==
    /\ sent.out.op = "get"
    /\ sent.out.plantId = NoId
    /\ sent.out.resp.rows = <<>>
    /\ sent.out.resp.success
    /\ \E p \in PlantIds : plants[p].exists

(***************************************************************************)
(* Properties of the authentication endpoint (SpecAuth)                    *)
(***************************************************************************)
Normalised(email) == toLowerCase(trim(email))

MSG_CREDENTIALS == "Invalid email or password"

\* C12: a login with both fields non-empty that names an unknown email, or a
\* known email with a wrong password, or that meets an identity provider
\* error, is answered 401 with one and the same message, no token, and no
\* further call.
C12_LoginAntiEnumeration ==
    LET e == Normalised(authSent.req.body.email)
        unknown == e \notin Emails \/ ~accounts[e].exists
        wrong == ~unknown /\ accounts[e].password # authSent.req.body.password
    IN (/\ authSent.op = "login"
        /\ e # ""
        /\ authSent.req.body.password # <<>>
        /\ (unknown \/ wrong \/ authSent.idpError = NETWORK_ERROR))
       => /\ authSent.resp = AuthFailure(401, MSG_CREDENTIALS)
          /\ authSent.dbCalls = 0

\* A login with a registered email and a wrong password was answered.
C12_Witness ==
    /\ authSent.op = "login"
    /\ authSent.email \in Emails
    /\ accounts[authSent.email].exists
    /\ authSent.req.body.password = WrongPassword
    /\ authSent.idpError = INVALID_LOGIN_CREDENTIALS
    /\ authSent.resp.status = 401

\* A login with an unregistered email was answered.
C12_WitnessUnknown ==
    /\ authSent.op = "login"
    /\ authSent.email \in Emails
    /\ ~accounts[authSent.email].exists
    /\ \E e \in Emails : accounts[e].exists
    /\ authSent.resp.status = 401

\* A login with good credentials met an identity provider error.
C12_WitnessProviderError ==
    /\ authSent.op = "login"
    /\ authSent.email \in Emails
    /\ accounts[authSent.email].exists
    /\ authSent.req.body.password = accounts[authSent.email].password
    /\ authSent.idpError = NETWORK_ERROR
    /\ authSent.resp.status = 401

\* C13 (as claimed): GET /auth/verify answers 401 exactly when the token
\* fails verification, and 404 exactly when the token verifies and its
\* subject has no profile row.
C13_VerifyNotFoundOnlyWhenAbsent ==
    authSent.op = "verify"
    => /\ authSent.resp.status = 401 <=> ~authSent.auth.ok
       /\ authSent.resp.status = 404
             <=> (authSent.auth.ok /\ ~users[authSent.auth.user_id].exists)

\* C16: a refresh with a header that verifies returns a new token for the
\* subject and email of the presented one, expiring 7 days after the
\* refresh; with a header that fails it returns 401 with verifyToken's
\* message and no token.
C16_Refresh ==
    authSent.op = "refresh"
    => LET presented == SplitOnSpace(authSent.req.headers.value)
           verified == verifyToken(authSent.req.headers, now)
       IN IF verified.ok
          THEN /\ authSent.resp.status = 200
               /\ authSent.resp.success
               /\ authSent.resp.token.payload =
                     [user_id |-> presented[2][1].tok.payload.user_id,
                      email |-> presented[2][1].tok.payload.email,
                      exp |-> now + 604800,
                      iat |-> now]
               /\ verifyToken(Bearer(authSent.resp.token), now).ok
               /\ issued = {[token |-> authSent.resp.token,
                             userId |-> presented[2][1].tok.payload.user_id,
                             email |-> presented[2][1].tok.payload.email,
                             at |-> now]}
          ELSE /\ authSent.resp = AuthFailure(401, verified.error)
               /\ verified.error \in {MSG_MISSING, MSG_FORMAT, MSG_EXPIRED, MSG_INVALID}
               /\ authSent.resp.token = NoTok

\* A token was refreshed after it was issued: the new one expires later.
C16_Witness ==
    /\ authSent.op = "refresh"
    /\ authSent.resp.success
    /\ authSent.req.headers.value[3].tok.payload.exp < authSent.resp.token.payload.exp
    /\ authSent.req.headers.value[3].tok.payload.user_id = "uB"

\* A refresh with an expired token was refused.
C16_WitnessExpired ==
    /\ authSent.op = "refresh"
    /\ authSent.resp = AuthFailure(401, MSG_EXPIRED)

\* C17: a signup whose normalised email lacks '@', or whose password is
\* absent or shorter than 6 characters, or whose trimmed name is empty, is
\* answered 400 with the message of that field, without a call to the
\* identity provider and without a token; a signup that succeeds has
\* registered, returned and signed the normalised email.
C17_SignupValidation ==
    authSent.op = "signup"
    => LET b == authSent.req.body
           e == Normalised(b.email)
           refused(msg) == /\ authSent.resp = AuthFailure(400, msg)
                           /\ authSent.idpCalls = 0
                           /\ authSent.idpError = ""
       IN /\ IF ~includesAt(e) THEN refused("Valid email is required")
             ELSE IF Len(b.password) < 6
             THEN refused("Password must be at least 6 characters")
             ELSE IF trim(b.name) = "" THEN refused("Name is required")
             ELSE authSent.idpCalls = 1
          /\ authSent.resp.success
             => /\ authSent.resp.user.email = e
                /\ authSent.resp.token.payload.email = e
                /\ accounts[e].exists

\* A signup with a padded, mixed-case email, a good password and a blank
\* name was refused for the name.
C17_Witness ==
    /\ authSent.op = "signup"
    /\ authSent.req.body = SignupBody(" A@Example.COM ", GoodPassword, "   ")
    /\ authSent.resp.status = 400
    /\ issued = {}

\* A signup with a padded, mixed-case email succeeded.
C17_WitnessNormalised ==
    /\ authSent.op = "signup"
    /\ authSent.req.body.email = " A@Example.COM "
    /\ authSent.resp.success
    /\ authSent.resp.token.payload.email = "a@example.com"

C18_WitnessOther ==
    /\ authSent.op = "signup"
    /\ authSent.idpError \in {NETWORK_ERROR, INVALID_EMAIL_FORMAT, "Failed to create user account"}
    /\ authSent.resp.status = 500

\* The times the clock can show, and the tokens a user can have been given
\* up to now.
ClockTimes ==
    { a + b * (TokenLifetime - 1) : a \in 0..MaxTicks, b \in 0..MaxTicks }

EarlierTokens ==
    { generateToken(u, EmailOf(u), t0) :
        u \in UserIds, t0 \in { x \in ClockTimes : x <= now } }

\* C28: a token issued to a user verifies at every time before its own
\* expiry, for its subject, whatever has happened since: a refresh or a
\* login that gave the client a newer token, the profile row missing or
\* deleted; the token presented to a successful refresh still verifies
\* after it.
C28_NoRevocation ==
    /\ \A tok \in EarlierTokens :
          now < tok.payload.exp
          => /\ verifyToken(Bearer(tok), now).ok
             /\ verifyToken(Bearer(tok), now).user_id = tok.payload.user_id
    /\ (authSent.op = "refresh" /\ authSent.resp.success)
       => verifyToken(authSent.req.headers, now).ok

\* A token was refreshed a second after it was issued, for a user whose
\* profile row is gone: the client holds the newer token, the older one
\* still verifies.
C28_Witness ==
    /\ authSent.op = "refresh"
    /\ authSent.resp.success
    /\ authSent.req.headers # Bearer(authSent.resp.token)
    /\ verifyToken(authSent.req.headers, now).ok
    /\ accounts[authSent.auth.email].exists
    /\ ~users[authSent.auth.user_id].exists
    /\ \A i \in issued : Bearer(i.token) # authSent.req.headers

(***************************************************************************)
(* Properties of the three endpoints (SpecService)                         *)
(***************************************************************************)
VanaStructured(resp) ==
    /\ resp.status \in {200, 400, 401, 404, 405, 500}
    /\ resp.success => resp.status = 200 /\ resp.error = <<>>
    /\ resp.status # 200
       => /\ ~resp.success
          /\ resp.error # <<>>
          /\ \A i \in 1..Len(resp.error) : resp.error[i] # ""

AuthStructured(resp) ==
    /\ resp.status \in {200, 400, 401, 404, 405, 409, 500}
    /\ resp.success => resp.status = 200 /\ resp.error = ""
    /\ resp.status # 200 => ~resp.success /\ resp.error # ""

DarshanStructured(resp) ==
    /\ resp.status \in {200, 400, 405, 429, 500}
    /\ resp.success => resp.status = 200 /\ resp.error = ""
    /\ resp.status # 200 => ~resp.success /\ resp.error # "" /\ resp.darshan = NoData

\* Every response sent is a structured one, and a handler that has sent none
\* is between the two queries of an update or a delete.
AllStructured ==
    /\ sent # NothingSent => VanaStructured(sent.out.resp)
    /\ authSent # AuthIdle => AuthStructured(authSent.resp)
    /\ darshan # NoExchange => DarshanStructured(darshan.resp)
    /\ \A s \in Slots :
          reqs[s] # Idle => /\ reqs[s].resp = NoResp
                            /\ reqs[s].op \in {"put", "delete"}
                            /\ reqs[s].dbCalls = 1

\* A step sends at most one response, and the step that ends a suspended
\* handler sends its response.
OneResponse ==
    /\ Cardinality({ v \in {1, 2, 3} :
                       \/ v = 1 /\ sent' # sent /\ sent' # NothingSent
                       \/ v = 2 /\ authSent' # authSent /\ authSent' # AuthIdle
                       \/ v = 3 /\ darshan' # darshan /\ darshan' # NoExchange }) <= 1
    /\ \A s \in Slots :
          (reqs[s] # Idle /\ reqs'[s] = Idle)
          => /\ sent = NothingSent
             /\ sent'.out.op = reqs[s].op
             /\ sent'.out.auth = reqs[s].auth
             /\ VanaStructured(sent'.out.resp)

\* C22: every request to the authentication, plant collection or
\* identification endpoint gets one response; a response that is not a
\* success has success false and an error text, whatever the token
\* verification, the data service, the identity provider, the gateway or
\* the model's reply did; no handler ends without having responded.
C22_OneStructuredResponse == []AllStructured /\ [][OneResponse]_vars

\* An update whose second query failed was answered 500.
C22_Witness ==
    /\ sent.out.op = "put"
    /\ sent.out.dbCalls = 2
    /\ sent.out.resp.status = 500
    /\ ~sent.out.resp.success

\* A signup during which the identity provider failed was answered 500.
C22_WitnessAuth ==
    /\ authSent.op = "signup"
    /\ authSent.idpCalls = 1
    /\ authSent.resp.status = 500

\* A reply without content from the gateway was answered 500.
C22_WitnessDarshan ==
    /\ darshan.gw = GatewayNoContent
    /\ darshan.resp.status = 500

(***************************************************************************)
(* Properties of the web client (SpecWeb, SpecWebLive)                     *)
(***************************************************************************)
Routed == ProtectedPaths \cup {"/auth"}

Spinner == Shows("spinner", "LoadingSpinner")

\* C29: a protected page is rendered only when loading is false and user is
\* non-null; under a route guard a spinner is shown while loading, an
\* unauthenticated visit of a protected path is redirected to /auth, an
\* authenticated visit of /auth is redirected to /, an unknown path
\* redirects to /, and authenticated is exactly (user != null).
C29_RouteGuard ==
    web.loaded =>
        LET shown == AppRoutes(web) IN
        /\ (shown.kind = "page" /\ web.path \in ProtectedPaths)
              => (~web.loading /\ web.user # NoWebUser /\ shown.what = PageOf(web.path))
        /\ (web.loading /\ web.path \in Routed) => shown = Spinner
        /\ (~web.loading /\ web.user = NoWebUser /\ web.path \in ProtectedPaths)
              => shown = Shows("navigate", "/auth")
        /\ (~web.loading /\ web.user # NoWebUser /\ web.path = "/auth")
              => shown = Shows("navigate", "/")
        /\ (~web.loading /\ web.user = NoWebUser /\ web.path = "/auth")
              => shown = Shows("page", "AuthPage")
        /\ web.path \notin Routed => shown = Shows("navigate", "/")
        /\ authenticated(web) <=> (web.user # NoWebUser)

\* A login has succeeded, the client was redirected from /auth and a
\* protected page is shown.
C29_Witness ==
    /\ AppRoutes(web) = Shows("page", "HomePage")
    /\ web.last = Happened("navigate", "")
    /\ web.token = "token"

\* The token was removed by a 401 while a protected page was open: the
\* page is still shown, to a user that is still set.
C29_WitnessNoToken ==
    /\ AppRoutes(web).kind = "page"
    /\ web.path \in ProtectedPaths
    /\ web.token = NoStoredToken

SignedOut == web.user = NoWebUser /\ web.token = NoStoredToken

AutoLogoutNow ==
    /\ web.last.outcome = "401" => (web.token = NoStoredToken /\ web.leaving)
    /\ web.last.what = "logout" => (SignedOut /\ web.leaving)
    /\ web.last = Happened("checkAuth", "no token") => (SignedOut /\ ~web.loading)
    /\ (web.last.what = "verify" /\ web.last.outcome # "ok") => (SignedOut /\ ~web.loading)

\* A client that is leaving goes nowhere but to /auth.
LeavesToAuth ==
    web.leaving => \/ web'.leaving /\ web'.path = web.path
                   \/ web' = Loaded("/auth", web.token, web.visits)

\* C30: a 401 on any call removes the stored token and sends the client to
\* /auth; after logout the token is absent and user is null; checkAuth
\* with no stored token, or with a token whose verification fails, ends
\* with user null and no stored token; loading eventually becomes false.
C30_AutoLogout ==
    /\ []AutoLogoutNow
    /\ [][LeavesToAuth]_vars
    /\ (web.leaving ~> (web.path = "/auth" /\ ~web.leaving))
    /\ (web.loading ~> ~web.loading)

\* A call of a protected page was answered with 401.
C30_Witness ==
    /\ web.last = Happened("api", "401")
    /\ web.token = NoStoredToken
    /\ web.leaving

DarshanSucceeded ==
    darshan.req.method = "POST" /\ darshan.resp.status = 200 /\ darshan.resp.success

\* The JSON values written in the model's reply.
RepliedValues ==
    { darshan.gw.content[i].data :
        i \in { k \in 1..Len(darshan.gw.content) : darshan.gw.content[k].kind = "json" } }

Deficient(d) ==
    \/ "confidence" \notin d.has
    \/ d.confidence.kind # "number" \/ d.confidence.num < 0 \/ d.confidence.num > 10
    \/ d.interesting_facts.kind # "array" \/ d.interesting_facts.len = 0

\* C4: whenever POST /darshan responds with success, the returned structure
\* is a JSON value of the model's reply, it has every required top-level
\* field, a numeric confidence within [0,1] and a non-empty interesting_facts
\* array; a reply missing confidence, with confidence 1.7 or with an empty
\* interesting_facts array never yields a success response.
C4_NoUnvalidatedOutput ==
    /\ DarshanSucceeded =>
          /\ darshan.gw.kind = "reply"
          /\ darshan.resp.darshan \in RepliedValues
          /\ requiredFields \subseteq darshan.resp.darshan.has
          /\ darshan.resp.darshan.confidence.kind = "number"
          /\ darshan.resp.darshan.confidence.num \in 0..10
          /\ darshan.resp.darshan.interesting_facts.kind = "array"
          /\ darshan.resp.darshan.interesting_facts.len >= 1
    /\ (darshan.gw.kind = "reply" /\ \A d \in RepliedValues : Deficient(d)) =>
          /\ ~darshan.resp.success
          /\ darshan.resp.darshan = NoData

\* A fenced reply was parsed, validated and returned.
C4_Witness ==
    /\ DarshanSucceeded
    /\ Len(darshan.gw.content) > 1
    /\ darshan.resp.darshan.confidence.num = 10

\* A reply with confidence 1.7 was answered with an error.
C4_WitnessRejected ==
    /\ darshan.gw.kind = "reply"
    /\ \E d \in RepliedValues : d.confidence = JNumber(17)
    /\ darshan.resp.status = 500

\* C5: the validator accepts a reply only if description, care_guide, vastu,
\* traditional_significance and warnings are each present and a JSON object
\* (not null, not a primitive, not an array), and interesting_facts,
\* vastu.benefits and vastu.suitable_rooms each have at least one element.
C5_ValidatorRequiresObjects ==
    DarshanSucceeded =>
        /\ \A f \in requiredObjects : darshan.resp.darshan.objects[f].kind = "object"
        /\ \A a \in {darshan.resp.darshan.interesting_facts,
                     darshan.resp.darshan.benefits,
                     darshan.resp.darshan.suitable_rooms} :
              a.kind = "array" /\ a.len >= 1

\* The model's reply did not pass parseGPTResponse and validateDarshanResult.
ReplyRejected ==
    /\ darshan.gw.kind = "reply"
    /\ LET parsed == parseGPTResponse(darshan.gw.content)
       IN ~parsed.ok \/ ~validateDarshanResult(parsed.data).ok

\* C23 (as claimed): when the gateway fails, a rate or quota failure is
\* answered 429 and every other failure, whatever its message, 500 with the
\* generic identification-failure message, which no reply that fails to
\* parse is answered with; the gateway is called only for a POST that
\* carries an image.
C23_GatewayFailureMapping ==
    /\ darshan.gw.kind = "error"
       => /\ darshan.gw.status = 429 => darshan.resp.status = 429
          /\ darshan.gw.status # 429
             => darshan.resp.status = 500 /\ darshan.resp.error = MSG_GENERIC
    /\ (darshan.gw.kind = "reply" /\ ~parseGPTResponse(darshan.gw.content).ok)
       => darshan.resp.status = 500 /\ darshan.resp.error # MSG_GENERIC
    /\ darshan.gw # NotCalled
       => darshan.req.method = "POST" /\ darshan.imageUrl # ""

\* C24 (as claimed): every reply of the model that fails a step of parsing
\* or validation is answered with the same 500 and the same generic message,
\* without data, whichever step failed.
C24_UniformRejection ==
    ReplyRejected
    => /\ darshan.resp.status = 500
       /\ ~darshan.resp.success
       /\ darshan.resp.error = MSG_GENERIC
       /\ darshan.resp.darshan = NoData

(***************************************************************************)
(* Properties of the token service (SpecToken)                             *)
(***************************************************************************)
\* C6: verifying 'Bearer ' + generateToken(userId, email) before its expiry
\* succeeds and returns that userId and that email.
C6_TokenRoundTrip ==
    \A i \in issued : \A n \in 1..Len(authLog) :
        (authLog[n].headers = Bearer(i.token) /\ authLog[n].at < i.at + TokenLifetime)
        => authLog[n].res = [ok |-> TRUE, user_id |-> i.userId,
                             email |-> i.email, error |-> ""]

C6_Witness ==
    \E i \in issued :
        /\ i.userId = "uA" /\ i.email = "b@example.com"
        /\ authLog # <<>>
        /\ authLog[1].headers = Bearer(i.token)
        /\ authLog[1].at > i.at
        /\ authLog[1].res.ok

\* C7: a token issued at t0 expires at t0 + 604800; it verifies at every
\* time before that, and at every time after it verification fails with the
\* expired message.
C7_TokenExpiry ==
    \A i \in issued :
        /\ i.token.payload.exp = i.at + 604800
        /\ \A n \in 1..Len(authLog) :
              authLog[n].headers = Bearer(i.token)
              => /\ authLog[n].at < i.at + 604800 => authLog[n].res.ok
                 /\ authLog[n].at > i.at + 604800
                       => authLog[n].res = AuthFail(MSG_EXPIRED)

C7_Witness ==
    \E i \in issued :
        /\ authLog # <<>>
        /\ authLog[1].headers = Bearer(i.token)
        /\ authLog[1].at = i.at + 604800 + 1
        /\ authLog[1].res = AuthFail(MSG_EXPIRED)

C7_WitnessLastSecond ==
    \E i \in issued :
        /\ authLog # <<>>
        /\ authLog[1].headers = Bearer(i.token)
        /\ authLog[1].at = i.at + 604800 - 1
        /\ authLog[1].res.ok

\* A header of the shape 'Bearer <token>', read without split: a scheme word
\* that is bearer in some case, one space, and no other space.
BearerShaped(v) ==
    /\ Len(v) >= 2
    /\ v[1] \in {Word("Bearer"), Word("bearer"), Word("BEARER")}
    /\ v[2] = SP
    /\ \A k \in 3..Len(v) : v[k] # SP

SignedByServer(t) == t.sig = [over |-> t.payload, key |-> JWT_SECRET, flip |-> FALSE]

\* C8: a bearer token whose signature is not the server's over its payload
\* (signature altered, payload altered, other secret) fails with the invalid
\* message, expired or not; verification succeeds only on a token signed by
\* the server.
C8_TamperRejection ==
    \A n \in 1..Len(authLog) :
        LET v == authLog[n].headers.value IN
        /\ (/\ BearerShaped(v) /\ Len(v) = 3 /\ v[3].k = "jwt"
            /\ ~SignedByServer(v[3].tok))
           => authLog[n].res = AuthFail(MSG_INVALID)
        /\ authLog[n].res.ok
           => /\ BearerShaped(v) /\ Len(v) = 3 /\ v[3].k = "jwt"
              /\ SignedByServer(v[3].tok)

C8_Witness ==
    \E i \in issued :
        /\ authLog # <<>>
        /\ authLog[1].headers = Bearer([i.token EXCEPT !.sig.flip = TRUE])
        /\ authLog[1].at < i.token.payload.exp
        /\ authLog[1].res = AuthFail(MSG_INVALID)

\* C9: an absent (or empty) header fails as missing; a header that is not
\* 'bearer', one space, and a part without spaces fails as malformed, whatever
\* token it carries; every verification ends in success or in exactly one of
\* the four messages.
C9_HeaderClassification ==
    \A n \in 1..Len(authLog) :
        LET h == authLog[n].headers
            r == authLog[n].res
        IN /\ (~h.present \/ h.value = <<>>) => r = AuthFail(MSG_MISSING)
           /\ (h.present /\ h.value # <<>> /\ ~BearerShaped(h.value))
              => r = AuthFail(MSG_FORMAT)
           /\ (h.present /\ BearerShaped(h.value))
              => (r.ok \/ r.error \in {MSG_EXPIRED, MSG_INVALID})
           /\ r.ok \/ r.error \in {MSG_MISSING, MSG_FORMAT, MSG_EXPIRED, MSG_INVALID}
           /\ r.ok => r.error = ""

C9_Witness ==
    \E i \in issued :
        /\ authLog # <<>>
        /\ authLog[1].headers.value
              = <<Word("Basic"), SP, Jwt([i.token EXCEPT !.sig.flip = TRUE])>>
        /\ authLog[1].res = AuthFail(MSG_FORMAT)

====
